---- MODULE Spec2Model ----
(***************************************************************************)
(* Outbound fulfillment and inventory ledger of the stock-app backend.     *)
(*                                                                         *)
(* The database tables the fulfillment services write are the state:       *)
(* product, outbound_header, outbound_item, inbound_header, inbound_item,  *)
(* stock_current and inventory_ledger.  Every service call is one action:  *)
(* it runs on a session of its own (backend/db/session.py), mutates the    *)
(* session's objects and either commits them or raises a DomainError, in   *)
(* which case the session is closed and its uncommitted work is dropped.   *)
(* The variable "result" holds what the last call returned or raised,      *)
(* "today" the calendar day (KST) and "txn" the transactions that run      *)
(* step by step next to each other.                                        *)
(***************************************************************************)
EXTENDS Integers, Sequences, FiniteSets, Bags, TLC

VARIABLES product, header, item, stock, ledger, inbound_header, inbound_item, result,
          today, txn

vars == <<product, header, item, stock, ledger, inbound_header, inbound_item, result,
          today, txn>>

db == <<product, header, item, stock, ledger, inbound_header, inbound_item>>

\* what a service call that runs from its begin to its commit in one step
\* leaves alone: the calendar day and the transactions that are under way
env == <<today, txn>>

(***************************************************************************)
(* Bounds of the model.                                                    *)
(***************************************************************************)
MaxQty == 2
MaxPack == 2
MaxFinalQty == 2
MaxInQty == 2
MaxLedger == 7
MaxAdjust == 1
MaxWeight == 2
MaxDay == 2

(***************************************************************************)
(* Reference data: identifiers present in the tables.                      *)
(***************************************************************************)
\* a NULL column (a date or a weight that is not set); days count from 1 and
\* a stored weight is at least 1, so 0 is neither
None == 0

\* the day the outbound headers were registered
RegisteredOn == 1

\* the sessions that can run next to each other
Txns == {1, 2}

Skus == {"A", "B", "P", "N"}
HeaderIds == {1, 2}
ItemIds == {1, 2, 3}
InboundHeaderIds == {1, 2}
InboundItemIds == {1, 2, 3, 4}
Statuses == {"draft", "picking", "completed", "canceled"}

(***************************************************************************)
(* error_codes.py: codes are <DOMAIN>-<TYPE>-<NNN>; a code is kept as the  *)
(* triple of its parts.                                                    *)
(***************************************************************************)
Domains == {"AUTH", "INBOUND", "OUTBOUND", "PRODUCT", "STOCK", "REPORTS", "SYSTEM"}
Types == {"VALID", "NOTFOUND", "CONFLICT", "DENY", "DISABLED", "STATE", "DB", "UNKNOWN"}

CODE_PATTERN(c) == c[1] \in Domains /\ c[2] \in Types

normalize_code(c) == IF CODE_PATTERN(c) THEN c ELSE <<"SYSTEM", "UNKNOWN", "999">>

DomainError(c) == normalize_code(c)

Ok == <<"", "OK", "">>

OUTBOUND_VALID_001 == <<"OUTBOUND", "VALID", "001">>
OUTBOUND_NOTFOUND_101 == <<"OUTBOUND", "NOTFOUND", "101">>
OUTBOUND_STATE_451 == <<"OUTBOUND", "STATE", "451">>

ErrType(c) == c[2]

(***************************************************************************)
(* What a call hands back: the operation, the normalized code (Ok when it  *)
(* returned), the header it resolved, the sku in the error context or in   *)
(* the returned item, the "message" marker of the returned item, the order *)
(* in which the lines came back from the query, and the input kept with    *)
(* the outcome (the invoice number of a load or of a failed lookup, the    *)
(* barcode of a scan, the final_qty of an adjustment, the request rows of  *)
(* an inbound confirm).                                                    *)
(***************************************************************************)
Result(op, code, hid, sku, message, rows, input) ==
    [op |-> op, code |-> code, header_id |-> hid, sku |-> sku,
     message |-> message, rows |-> rows, input |-> input]

(***************************************************************************)
(* Session end: commit() makes the session's work durable; close() without *)
(* commit drops it (get_sync_session's finally).                           *)
(***************************************************************************)
SessionEndKeepsWork(committed, durable, work) == work

SessionEnd(committed, durable, work) == IF committed THEN work ELSE durable


(***************************************************************************)
(* inventory_ledger rows (id, memo, unit_price and timestamps left out).   *)
(* The table is kept as a bag of rows: rows are never told apart by id.    *)
(***************************************************************************)
LedgerRow(sku, event_type, ref_type, ref_id, qty_in, qty_out) ==
    [sku |-> sku, event_type |-> event_type, ref_type |-> ref_type,
     ref_id |-> ref_id, qty_in |-> qty_in, qty_out |-> qty_out]

\* session.add(InventoryLedger(...)): an INSERT, the rows already there stay
AddRowOverOthers(led, row) == SetToBag({row})

AddRow(led, row) == led (+) SetToBag({row})

RECURSIVE SumNet(_, _)
SumNet(led, rows) ==
    IF rows = {} THEN 0
    ELSE LET r == CHOOSE x \in rows : TRUE
         IN led[r] * (r.qty_in - r.qty_out) + SumNet(led, rows \ {r})

\* sum of qty_in - qty_out over the ledger rows of one sku
LedgerNet(led, sku) == SumNet(led, {r \in BagToSet(led) : r.sku = sku})

RECURSIVE CountRows(_, _)
CountRows(led, rows) ==
    IF rows = {} THEN 0
    ELSE LET r == CHOOSE x \in rows : TRUE
         IN led[r] + CountRows(led, rows \ {r})

(***************************************************************************)
(* stock_current: one row per sku, or none.                                *)
(***************************************************************************)
NoStockRow == [exists |-> FALSE, qty_on_hand |-> 0, qty_pending_out |-> 0]

StockRow(qty_on_hand, qty_pending_out) ==
    [exists |-> TRUE, qty_on_hand |-> qty_on_hand, qty_pending_out |-> qty_pending_out]

(***************************************************************************)
(* A session (autoflush off): the call it runs and where the call is, the  *)
(* header and the lines it has loaded, in the order they are worked on,    *)
(* the stock rows in its identity map with the values it has given them,   *)
(* the ledger rows it has added and not yet flushed, the outbound_date it  *)
(* read and the day it took as kst_date.                                   *)
(***************************************************************************)
IdleTxn ==
    [pc |-> "idle", header_id |-> 0, rows |-> <<>>, loaded |-> {},
     stock |-> [s \in Skus |-> NoStockRow], ledger |-> EmptyBag,
     outbound_date |-> None, kst_date |-> None]

(***************************************************************************)
(* Orders in which a query without ORDER BY may return a set of rows.      *)
(***************************************************************************)
RowOrders(S) ==
    {q \in [1..Cardinality(S) -> S] : \A i, j \in 1..Cardinality(S) : i /= j => q[i] /= q[j]}

(***************************************************************************)
(* outbound_process_service.py                                             *)
(***************************************************************************)
\* _normalize_invoice_no / _normalize_barcode: blank input is rejected
normalize_invoice_no(invoice_no) == invoice_no /= ""

normalize_barcode(barcode) == barcode /= ""

\* _get_header: the non-deleted headers the query matches; .first() takes one
get_header(invoice_no) ==
    {h \in HeaderIds : /\ header[h].deleted_at = FALSE
                       /\ \/ header[h].order_number = invoice_no
                          \/ header[h].tracking_number = invoice_no}

\* the non-deleted lines of a header
HeaderItems(h) == {i \in ItemIds : item[i].header_id = h /\ item[i].deleted_at = FALSE}

\* load_invoice: statuses that are moved to picking
LoadableAlsoCompleted(status) == status \in {"draft", "canceled", "completed"}
LoadableWithoutCanceled(status) == status \in {"draft"}

Loadable(status) == status \in {"draft", "canceled"}

\* scan_item, line 239: status gate
ScanAllowedNotDraft(status) == status /= "draft"

ScanAllowed(status) == status \in {"picking"}

\* confirm_outbound, line 349: status gate
ConfirmAllowedCompleted(status) == status \in {"picking", "completed"}

ConfirmAllowed(status) == status = "picking"

\* scan_item: the over-scan test
OverScanOffByOne(it) == it.scanned_qty > it.qty

OverScan(it) == it.scanned_qty >= it.qty

\* confirm_outbound: the full-scan test of one line
ScannedSomething(it) == it.scanned_qty >= 1

FullyScanned(it) == it.qty = it.scanned_qty

\* confirm_outbound: the sku and factor a line debits
DebitTargetOwnSku(p) == [sku |-> p.sku, factor |-> p.pack_qty]

DebitTarget(p) ==
    IF p.is_bundle /\ p.base_sku /= "" /\ p.pack_qty > 1
    THEN [sku |-> p.base_sku, factor |-> p.pack_qty]
    ELSE [sku |-> p.sku, factor |-> 1]

EffectiveQtyUnscaled(it) == it.qty

EffectiveQty(it) == it.qty * DebitTarget(product[it.sku]).factor

\* confirm_outbound, lines 441-451: the ledger row of one line
OutboundLedgerRowSwapped(target_sku, hid, effective_qty) ==
    LedgerRow(target_sku, "OUTBOUND", "OUTBOUND", hid, effective_qty, 0)

OutboundLedgerRow(target_sku, hid, effective_qty) ==
    LedgerRow(target_sku, "OUTBOUND", "OUTBOUND", hid, 0, effective_qty)

\* the debit of one line applied to the session's stock row
AfterDebitTwice(qty_on_hand, effective_qty) == qty_on_hand - effective_qty - effective_qty

AfterDebitUnchanged(qty_on_hand, effective_qty) == qty_on_hand

AfterDebit(qty_on_hand, effective_qty) == qty_on_hand - effective_qty

\* confirm_outbound, lines 400-454: the lines are debited one after the
\* other on the session's objects; the first line whose target has no stock
\* row or too little stock raises.
RECURSIVE DebitLines(_, _, _, _)
DebitLines(rows, hid, stk, led) ==
    IF rows = <<>>
    THEN [failed |-> FALSE, sku |-> "", stock |-> stk, ledger |-> led]
    ELSE LET it == item[Head(rows)]
             target_sku == DebitTarget(product[it.sku]).sku
             effective_qty == EffectiveQty(it)
         IN IF ~stk[target_sku].exists \/ stk[target_sku].qty_on_hand < effective_qty
            THEN [failed |-> TRUE, sku |-> target_sku, stock |-> stk, ledger |-> led]
            ELSE DebitLines(Tail(rows), hid,
                     [stk EXCEPT ![target_sku].qty_on_hand = AfterDebit(@, effective_qty)],
                     AddRow(led, OutboundLedgerRow(target_sku, hid, effective_qty)))

\* the first line, in query order, that is not fully scanned (0 if none)
RECURSIVE FirstMismatch(_)
FirstMismatch(rows) ==
    IF rows = <<>> THEN 0
    ELSE IF ~FullyScanned(item[Head(rows)]) THEN Head(rows)
    ELSE FirstMismatch(Tail(rows))


(***************************************************************************)
(* Inputs the calls are tried with.                                        *)
(***************************************************************************)
InvoiceNos == {"ORD-1", "TRK-1", "TRK-2", ""}
Barcodes == {"bA", "bB", "bP", "bX", ""}
\* the scans tried: every barcode on the shipment's order number, and the
\* barcode of A on the other invoice numbers
ScanCalls == ({"ORD-1"} \X Barcodes) \cup ({"TRK-1", "TRK-2", ""} \X {"bA"})

\* Product rows whose barcode column equals the scanned barcode
ProductsByBarcode(barcode) == {s \in Skus : product[s].barcode = barcode}

\* a call that raised: nothing was committed, the tables stay as they were
Raise(op, code, hid, sku, rows, input) ==
    /\ result' = Result(op, DomainError(code), hid, sku, "", rows, input)
    /\ UNCHANGED <<db, env>>

\* 1) load_invoice, lines 156-225
load_invoice(invoice_no) ==
    IF ~normalize_invoice_no(invoice_no)
    THEN Raise("load_invoice", OUTBOUND_VALID_001, 0, "", <<>>, invoice_no)
    ELSE IF get_header(invoice_no) = {}
    THEN Raise("load_invoice", OUTBOUND_NOTFOUND_101, 0, "", <<>>, invoice_no)
    ELSE \E h \in get_header(invoice_no) :
           /\ header' = IF Loadable(header[h].status)
                        THEN SessionEnd(TRUE, header, [header EXCEPT ![h].status = "picking"])
                        ELSE header
           /\ result' = Result("load_invoice", Ok, h, "", "", <<>>, invoice_no)
           /\ UNCHANGED <<env, product, item, stock, ledger, inbound_header, inbound_item>>

\* 2) scan_item, lines 228-313
scan_item(invoice_no, barcode) ==
    IF ~normalize_invoice_no(invoice_no) \/ ~normalize_barcode(barcode)
    THEN Raise("scan_item", OUTBOUND_VALID_001, 0, "", <<>>, barcode)
    ELSE IF get_header(invoice_no) = {}
    THEN Raise("scan_item", OUTBOUND_NOTFOUND_101, 0, "", <<>>, invoice_no)
    ELSE \E h \in get_header(invoice_no) :
           IF ~ScanAllowed(header[h].status)
           THEN Raise("scan_item", OUTBOUND_STATE_451, h, "", <<>>, barcode)
           ELSE IF ProductsByBarcode(barcode) = {}
           THEN Raise("scan_item", OUTBOUND_NOTFOUND_101, h, "", <<>>, barcode)
           ELSE \E sku \in ProductsByBarcode(barcode) :
                  LET lines == {i \in HeaderItems(h) : item[i].sku = sku}
                  IN IF lines = {}
                     THEN Raise("scan_item", OUTBOUND_NOTFOUND_101, h, sku, <<>>, barcode)
                     ELSE \E i \in lines :
                            IF OverScan(item[i])
                            THEN /\ result' = Result("scan_item", Ok, h, sku, "over_scan",
                                                     <<i>>, barcode)
                                 /\ UNCHANGED <<db, env>>
                            ELSE /\ item' = SessionEnd(TRUE, item,
                                                [item EXCEPT ![i].scanned_qty = @ + 1])
                                 /\ result' = Result("scan_item", Ok, h, sku, "", <<i>>, barcode)
                                 /\ UNCHANGED <<env, product, header, stock, ledger,
                                                inbound_header, inbound_item>>

\* the ledger cap of the model
WithinLedgerBound(led) == BagCardinality(led) <= MaxLedger

\* 4) confirm_outbound, lines 339-472
\* the header's outbound_date after a confirm on the day kst_date: written only
\* when the column is NULL
ConfirmDate(outbound_date, kst_date) ==
    IF outbound_date = None THEN kst_date ELSE outbound_date

confirm_outbound(invoice_no) ==
    IF ~normalize_invoice_no(invoice_no)
    THEN Raise("confirm_outbound", OUTBOUND_VALID_001, 0, "", <<>>, invoice_no)
    ELSE IF get_header(invoice_no) = {}
    THEN Raise("confirm_outbound", OUTBOUND_NOTFOUND_101, 0, "", <<>>, invoice_no)
    ELSE \E h \in get_header(invoice_no) :
           IF ~ConfirmAllowed(header[h].status)
           THEN Raise("confirm_outbound", OUTBOUND_STATE_451, h, "", <<>>, "")
           ELSE IF HeaderItems(h) = {}
           THEN Raise("confirm_outbound", OUTBOUND_STATE_451, h, "", <<>>, "")
           ELSE \E rows \in RowOrders(HeaderItems(h)) :
                  IF FirstMismatch(rows) /= 0
                  THEN Raise("confirm_outbound", OUTBOUND_STATE_451, h,
                             item[FirstMismatch(rows)].sku, rows, "")
                  ELSE LET work == DebitLines(rows, h, stock, ledger)
                           committed == ~work.failed
                       IN /\ WithinLedgerBound(work.ledger)
                          /\ stock' = SessionEnd(committed, stock, work.stock)
                          /\ ledger' = SessionEnd(committed, ledger, work.ledger)
                          /\ header' = SessionEnd(committed, header,
                                          [header EXCEPT
                                             ![h].outbound_date =
                                                 ConfirmDate(header[h].outbound_date, today),
                                             ![h].status = "completed"])
                          /\ result' = IF work.failed
                                       THEN Result("confirm_outbound",
                                                   DomainError(OUTBOUND_STATE_451), h,
                                                   work.sku, "", rows, "")
                                       ELSE Result("confirm_outbound", Ok, h, "", "", rows, "")
                          /\ UNCHANGED <<env, product, item, inbound_header, inbound_item>>

(***************************************************************************)
(* outbound_complete_service.py: cancel_items                              *)
(***************************************************************************)
\* cancel_items: status gate
NotDraft(status) == status /= "draft"

IsCompleted(status) == status = "completed"

\* the credit of one canceled line applied to the session's stock row
AfterCreditTwice(qty_on_hand, qty) == qty_on_hand + qty + qty

AfterCredit(qty_on_hand, qty) == qty_on_hand + qty

\* cancel_items, lines 517-565: every line credits its own sku; a line whose
\* sku has no stock row raises.
RECURSIVE CreditLines(_, _, _, _)
CreditLines(rows, hid, stk, led) ==
    IF rows = <<>>
    THEN [failed |-> FALSE, sku |-> "", stock |-> stk, ledger |-> led]
    ELSE LET it == item[Head(rows)]
         IN IF ~stk[it.sku].exists
            THEN [failed |-> TRUE, sku |-> it.sku, stock |-> stk, ledger |-> led]
            ELSE CreditLines(Tail(rows), hid,
                     [stk EXCEPT ![it.sku].qty_on_hand = AfterCredit(@, it.qty)],
                     AddRow(led, LedgerRow(it.sku, "OUTBOUND_CANCEL", "OUTBOUND", hid, it.qty, 0)))

CancelIds == {<<>>, <<1, 2>>} \cup {<<i>> : i \in ItemIds \cup {9}}

\* 3) cancel_items, lines 403-607
cancel_items(ids) ==
    IF Len(ids) /= 1
    THEN Raise("cancel_items", OUTBOUND_VALID_001, 0, "", <<>>, "")
    ELSE LET target_item_id == ids[1]
             found == /\ target_item_id \in ItemIds
                      /\ item[target_item_id].deleted_at = FALSE
                      /\ header[item[target_item_id].header_id].deleted_at = FALSE
         IN IF ~found
            THEN Raise("cancel_items", OUTBOUND_NOTFOUND_101, 0, "", <<>>, "")
            ELSE LET h == item[target_item_id].header_id
                 IN IF ~IsCompleted(header[h].status)
                    THEN Raise("cancel_items", OUTBOUND_STATE_451, h, "", <<>>, "")
                    ELSE \E rows \in RowOrders(HeaderItems(h)) :
                           LET work == CreditLines(rows, h, stock, ledger)
                               committed == ~work.failed
                           IN /\ WithinLedgerBound(work.ledger)
                              /\ stock' = SessionEnd(committed, stock, work.stock)
                              /\ ledger' = SessionEnd(committed, ledger, work.ledger)
                              /\ header' = SessionEnd(committed, header,
                                              [header EXCEPT ![h].status = "canceled"])
                              /\ result' = IF work.failed
                                           THEN Result("cancel_items",
                                                       DomainError(OUTBOUND_STATE_451), h, work.sku, "", rows, "")
                                           ELSE Result("cancel_items", Ok, h, "", "", rows, "")
                              /\ UNCHANGED <<env, product, item, inbound_header, inbound_item>>

(***************************************************************************)
(* outbound_process_service.py: set_weight.  A weight_g argument is either *)
(* something int() converts (its value is what int() gives) or something   *)
(* int() raises on.                                                        *)
(***************************************************************************)
WeightArg(converts, value) == [converts |-> converts, value |-> value]

WeightArgs == {WeightArg(TRUE, w) : w \in (-1)..MaxWeight} \cup {WeightArg(FALSE, 0)}

SetWeightCalls == ({"ORD-1"} \X WeightArgs) \cup ({"TRK-2", ""} \X {WeightArg(TRUE, 1)})

\* _normalize_weight, lines 84-99: the argument is accepted when int() converts
\* it and the value is at least 1
WeightAcceptedFromZero(weight_g) == weight_g.converts /\ weight_g.value >= 0

WeightAccepted(weight_g) == weight_g.converts /\ weight_g.value > 0

normalize_weight(weight_g) == weight_g.value

\* 3) set_weight, lines 316-336: no test of the header's status
set_weight(invoice_no, weight_g) ==
    IF ~normalize_invoice_no(invoice_no)
    THEN Raise("set_weight", OUTBOUND_VALID_001, 0, "", <<>>, <<invoice_no, weight_g>>)
    ELSE IF ~WeightAccepted(weight_g)
    THEN Raise("set_weight", OUTBOUND_VALID_001, 0, "", <<>>, <<invoice_no, weight_g>>)
    ELSE IF get_header(invoice_no) = {}
    THEN Raise("set_weight", OUTBOUND_NOTFOUND_101, 0, "", <<>>, <<invoice_no, weight_g>>)
    ELSE \E h \in get_header(invoice_no) :
           /\ header' = [header EXCEPT ![h].weight_g = normalize_weight(weight_g)]
           /\ result' = Result("set_weight", Ok, h, "", "", <<>>, <<invoice_no, weight_g>>)
           /\ UNCHANGED <<env, product, item, stock, ledger, inbound_header,
                          inbound_item>>

(***************************************************************************)
(* outbound_cancel_service.py: reissue                                     *)
(***************************************************************************)
OUTBOUND_VALID_002 == <<"OUTBOUND", "VALID", "002">>
OUTBOUND_VALID_003 == <<"OUTBOUND", "VALID", "003">>
OUTBOUND_NOTFOUND_001 == <<"OUTBOUND", "NOTFOUND", "001">>
OUTBOUND_NOTFOUND_002 == <<"OUTBOUND", "NOTFOUND", "002">>

ReissueIds == {<<>>, <<1, 2>>} \cup {<<h>> : h \in HeaderIds \cup {9}}

\* the header query of reissue: id, status canceled, not deleted
IsCanceledOrCompleted(status) == status \in {"canceled", "completed"}

IsCanceled(status) == status = "canceled"

\* reissue, lines 215-307: the canceled header goes back to draft with no
\* outbound_date and no weight (tracking_number kept), its lines to scanned 0
reissue(header_ids) ==
    IF header_ids = <<>>
    THEN Raise("reissue", OUTBOUND_VALID_002, 0, "", <<>>, header_ids)
    ELSE IF Len(header_ids) /= 1
    THEN Raise("reissue", OUTBOUND_VALID_003, 0, "", <<>>, header_ids)
    ELSE LET header_id == header_ids[1]
             found == /\ header_id \in HeaderIds
                      /\ IsCanceled(header[header_id].status)
                      /\ header[header_id].deleted_at = FALSE
         IN IF ~found
            THEN Raise("reissue", OUTBOUND_NOTFOUND_001, 0, "", <<>>, header_ids)
            ELSE IF HeaderItems(header_id) = {}
            THEN Raise("reissue", OUTBOUND_NOTFOUND_002, header_id, "", <<>>, header_ids)
            ELSE /\ header' = [header EXCEPT ![header_id].outbound_date = None,
                                             ![header_id].weight_g = None,
                                             ![header_id].status = "draft"]
                 /\ item' = [i \in ItemIds |->
                               IF i \in HeaderItems(header_id)
                               THEN [item[i] EXCEPT !.scanned_qty = 0]
                               ELSE item[i]]
                 /\ result' = Result("reissue", Ok, header_id, "", "", <<>>, header_ids)
                 /\ UNCHANGED <<env, product, stock, ledger, inbound_header,
                                inbound_item>>

(***************************************************************************)
(* outbound_register_service.py, OutboundRegisterService.update_item: the  *)
(* registration tab edits one line.  data holds the fields the caller      *)
(* sent (keys) and their values; only sku and qty are state here.          *)
(***************************************************************************)
SYSTEM_VALID_001 == <<"SYSTEM", "VALID", "001">>

UpdateData(keys, sku, qty) == [keys |-> keys, sku |-> sku, qty |-> qty]

UpdateQtys == {1, MaxQty}

UpdateCalls ==
    ({0, 3} \X {UpdateData({"qty"}, "", 1)})
    \cup ({1} \X ({UpdateData({}, "", 0), UpdateData({"sku"}, "B", 0),
                   UpdateData({"sku"}, "X", 0)}
                  \cup {UpdateData({"qty"}, "", q) : q \in UpdateQtys}))

\* item.sku = cleaned_data["sku"], lines 409-410
UpdatedSku(sku, data) == IF "sku" \in data.keys THEN data.sku ELSE sku

\* item.qty = cleaned_data["qty"], lines 411-412
UpdatedQty(row, data) == IF "qty" \in data.keys THEN [row EXCEPT !.qty = data.qty] ELSE row

update_item(item_id, data) ==
    IF item_id <= 0 \/ data.keys = {}
    THEN Raise("update_item", SYSTEM_VALID_001, 0, "", <<>>, <<item_id, data>>)
    ELSE IF item_id \notin ItemIds \/ item[item_id].deleted_at
    THEN Raise("update_item", OUTBOUND_NOTFOUND_001, 0, "", <<>>, <<item_id, data>>)
    ELSE LET header_id == item[item_id].header_id
             new_sku == IF "sku" \in data.keys THEN data.sku ELSE ""
         IN IF header[header_id].deleted_at
            THEN Raise("update_item", OUTBOUND_NOTFOUND_002, header_id, "", <<>>,
                       <<item_id, data>>)
            ELSE IF new_sku /= "" /\ ~(new_sku \in Skus /\ product[new_sku].exists)
            THEN Raise("update_item", OUTBOUND_VALID_002, header_id, new_sku, <<>>,
                       <<item_id, data>>)
            ELSE /\ item' = [item EXCEPT ![item_id] =
                               [UpdatedQty(item[item_id], data)
                                  EXCEPT !.sku = UpdatedSku(item[item_id].sku, data)]]
                 /\ result' = Result("update_item", Ok, header_id,
                                     UpdatedSku(item[item_id].sku, data), "", <<>>,
                                     <<item_id, data>>)
                 /\ UNCHANGED <<env, product, header, stock, ledger, inbound_header,
                                inbound_item>>

(***************************************************************************)
(* The calendar: the KST day of datetime.now(KST).date() moves on.         *)
(***************************************************************************)
Tick ==
    /\ today < MaxDay
    /\ today' = today + 1
    /\ UNCHANGED <<db, result, txn>>

(***************************************************************************)
(* product_register_service.py: delete.  The product row is removed from   *)
(* the table; a sku without a row reads as NoProductRow: no barcode, not a *)
(* bundle, not active, which is how every reader of the table treats a     *)
(* missing product.  The tables that hold a sku declare it a foreign key   *)
(* to product.sku with no ON DELETE rule, so the DELETE of a product that  *)
(* a row still names fails in the database with an IntegrityError, which   *)
(* is not a DomainError and leaves the session uncommitted.                *)
(***************************************************************************)
PRODUCT_VALID_004 == <<"PRODUCT", "VALID", "004">>
PRODUCT_USED_001 == <<"PRODUCT", "USED", "001">>

\* an exception of the driver, raised as it is
IntegrityError == <<"", "IntegrityError", "">>

NoProductRow(sku) ==
    [sku |-> sku, barcode |-> "", is_bundle |-> FALSE, base_sku |-> "",
     pack_qty |-> 1, is_active |-> FALSE, deleted_at |-> FALSE, exists |-> FALSE]

DeleteCalls == {<<>>, <<"">>, <<"N", "B">>} \cup {<<s>> : s \in Skus}

\* the test for stock history, lines 379-382: a ledger row with the sku
Used(led, sku) == \E r \in BagToSet(led) : r.sku = sku

\* rows of other tables that name the sku: lines of outbound and inbound
\* slips (soft-deleted ones included), the stock row, another product's base
Referenced(prod, sku) ==
    \/ \E i \in ItemIds : item[i].sku = sku
    \/ \E i \in InboundItemIds : inbound_item[i].sku = sku
    \/ stock[sku].exists
    \/ \E s \in Skus \ {sku} : prod[s].exists /\ prod[s].base_sku = sku

\* the loop of delete, lines 373-395: blank skus are skipped, a sku with a
\* ledger row raises, any other sku has its product row deleted
RECURSIVE DeleteSkus(_, _)
DeleteSkus(skus, prod) ==
    IF skus = <<>>
    THEN [failed |-> FALSE, code |-> Ok, sku |-> "", product |-> prod]
    ELSE LET sku == Head(skus)
         IN IF sku = ""
            THEN DeleteSkus(Tail(skus), prod)
            ELSE IF Used(ledger, sku)
            THEN [failed |-> TRUE, code |-> DomainError(PRODUCT_USED_001), sku |-> sku,
                  product |-> prod]
            ELSE IF Referenced(prod, sku)
            THEN [failed |-> TRUE, code |-> IntegrityError, sku |-> sku, product |-> prod]
            ELSE DeleteSkus(Tail(skus),
                            [s \in Skus |-> IF s = sku THEN NoProductRow(s) ELSE prod[s]])

\* 4) delete, lines 358-402
delete(skus) ==
    IF skus = <<>>
    THEN Raise("delete", PRODUCT_VALID_004, 0, "", <<>>, skus)
    ELSE LET work == DeleteSkus(skus, product)
             committed == ~work.failed
         IN /\ product' = SessionEnd(committed, product, work.product)
            /\ result' = Result("delete", work.code, 0, work.sku, "", <<>>, skus)
            /\ UNCHANGED <<env, header, item, stock, ledger, inbound_header,
                           inbound_item>>

(***************************************************************************)
(* statuspage_service.py: adjust                                           *)
(***************************************************************************)
STOCK_VALID_001 == <<"STOCK", "VALID", "001">>
STOCK_NOTFOUND_101 == <<"STOCK", "NOTFOUND", "101">>
STOCK_STATE_451 == <<"STOCK", "STATE", "451">>

AdjustQtys == (-1)..MaxFinalQty
\* the adjustments tried: B to every quantity, P to -1 and to 1, and an
\* unknown and a blank sku
AdjustCalls == ({"B"} \X AdjustQtys) \cup ({"P"} \X {-1, 1}) \cup ({"Z", ""} \X {0})

\* number of ADJUST rows in the ledger (caps the adjustments of the model)
AdjustRows(led) == CountRows(led, {r \in BagToSet(led) : r.event_type = "ADJUST"})

\* the ledger row of an adjustment, lines 591-641
AdjustLedgerRowSwapped(sku, final_qty, before_qty) ==
    LET delta == final_qty - before_qty
    IN LedgerRow(sku, "ADJUST", "STOCK_ADJUST", 0,
                 IF delta < 0 THEN -delta ELSE 0, IF delta > 0 THEN delta ELSE 0)

AdjustLedgerRow(sku, final_qty, before_qty) ==
    LET delta == final_qty - before_qty
    IN LedgerRow(sku, "ADJUST", "STOCK_ADJUST", 0,
                 IF delta > 0 THEN delta ELSE 0, IF delta < 0 THEN -delta ELSE 0)

\* the pending-out check of adjust, lines 580-589
BelowPendingOutIgnored(final_qty, row) == FALSE

BelowPendingOut(final_qty, row) == final_qty < row.qty_pending_out

\* the product check of adjust, lines 526-538
ActiveProduct(sku) ==
    sku \in Skus /\ product[sku].deleted_at = FALSE /\ product[sku].is_active

\* 6) adjust, lines 486-673.  A missing stock row is inserted with zero
\* quantities and committed before the adjustment itself.
adjust(sku, final_qty) ==
    IF sku = "" \/ final_qty < 0
    THEN Raise("adjust", STOCK_VALID_001, 0, sku, <<>>, final_qty)
    ELSE IF ~(sku \in Skus /\ stock[sku].exists) /\ ~ActiveProduct(sku)
    THEN Raise("adjust", STOCK_NOTFOUND_101, 0, sku, <<>>, final_qty)
    ELSE LET inserted == [stock EXCEPT ![sku] = IF @.exists THEN @ ELSE StockRow(0, 0)]
             row == inserted[sku]
         IN IF BelowPendingOut(final_qty, row)
            THEN /\ result' = Result("adjust", DomainError(STOCK_STATE_451), 0, sku, "", <<>>,
                                     final_qty)
                 /\ stock' = inserted
                 /\ UNCHANGED <<env, product, header, item, ledger, inbound_header, inbound_item>>
            ELSE LET led == AddRow(ledger, AdjustLedgerRow(sku, final_qty, row.qty_on_hand))
                 IN /\ WithinLedgerBound(led)
                    /\ AdjustRows(led) <= MaxAdjust
                    /\ ledger' = SessionEnd(TRUE, ledger, led)
                    /\ stock' = SessionEnd(TRUE, inserted,
                                    [inserted EXCEPT ![sku].qty_on_hand = final_qty])
                    /\ result' = Result("adjust", Ok, 0, sku, "", <<>>, final_qty)
                    /\ UNCHANGED <<env, product, header, item, inbound_header, inbound_item>>


(***************************************************************************)
(* inbound_process_service.py: confirm                                     *)
(***************************************************************************)
INBOUND_VALID_001 == <<"INBOUND", "VALID", "001">>
INBOUND_CONFIRM_001 == <<"INBOUND", "CONFIRM", "001">>
INBOUND_CONFIRM_002 == <<"INBOUND", "CONFIRM", "002">>
INBOUND_CONFIRM_003 == <<"INBOUND", "CONFIRM", "003">>
INBOUND_CONFIRM_004 == <<"INBOUND", "CONFIRM", "004">>
INBOUND_CONFIRM_006 == <<"INBOUND", "CONFIRM", "006">>

\* request rows {item_id, sku, qty}; sku "" stands for a row without sku
ConfirmRow(item_id, sku, qty) == [item_id |-> item_id, sku |-> sku, qty |-> qty]

\* the requests tried: line 1 alone and lines 1 and 2 together with the
\* smallest and the largest quantity, the line of the bundle alone, and
\* requests that are refused
ConfirmRequests ==
    {<<ConfirmRow(1, "", q)>> : q \in {1, MaxInQty}}
    \cup {<<ConfirmRow(1, "", q), ConfirmRow(2, "", q)>> : q \in {1, MaxInQty}}
    \cup {<<>>,
          <<ConfirmRow(4, "", 1)>>,
          <<ConfirmRow(3, "", 1)>>,
          <<ConfirmRow(1, "", 1), ConfirmRow(3, "", 1)>>,
          <<ConfirmRow(1, "B", 1)>>,
          <<ConfirmRow(1, "", 0)>>,
          <<ConfirmRow(9, "", 1)>>,
          <<ConfirmRow(0, "", 1)>>,
          <<ConfirmRow(1, "", 1), ConfirmRow(1, "", 1)>>}

\* the calls tried: every request on slip 1, two requests on the committed
\* slip 2, one on the ids that name no slip
ConfirmCalls ==
    ({1} \X ConfirmRequests)
    \cup ({2} \X {<<ConfirmRow(1, "", 1)>>, <<ConfirmRow(3, "", 1)>>})
    \cup ({0, 9} \X {<<ConfirmRow(1, "", 1)>>})

\* lines 573-579: a committed header is not confirmed again
AlreadyCommittedIgnored(status) == FALSE

AlreadyCommitted(status) == status = "committed"

SeqRange(q) == {q[i] : i \in 1..Len(q)}

\* lines 663-704: the first request row that is rejected (0 if none) and
\* its code: a sku that differs from the line's sku, or a quantity below 1
RECURSIVE FirstBadRow(_, _)
FirstBadRow(req, k) ==
    IF k > Len(req) THEN [index |-> 0, code |-> Ok]
    ELSE IF req[k].sku /= "" /\ req[k].sku /= inbound_item[req[k].item_id].sku
    THEN [index |-> k, code |-> INBOUND_CONFIRM_006]
    ELSE IF req[k].qty <= 0
    THEN [index |-> k, code |-> INBOUND_VALID_001]
    ELSE FirstBadRow(req, k + 1)

\* lines 660-704: quantity requested per sku
RECURSIVE QtyOfSku(_, _)
QtyOfSku(req, sku) ==
    IF req = <<>> THEN 0
    ELSE (IF inbound_item[Head(req).item_id].sku = sku THEN Head(req).qty ELSE 0)
         + QtyOfSku(Tail(req), sku)

\* the quantities of the request rows written on the lines (line 689)
RECURSIVE SetLineQty(_, _)
SetLineQty(req, lines) ==
    IF req = <<>> THEN lines
    ELSE SetLineQty(Tail(req), [lines EXCEPT ![Head(req).item_id].qty = Head(req).qty])

\* lines 718-733: one INBOUND row per sku of the request
RECURSIVE InboundLedger(_, _, _, _)
InboundLedger(skus, req, hid, led) ==
    IF skus = {} THEN led
    ELSE LET sku == CHOOSE x \in skus : TRUE
         IN InboundLedger(skus \ {sku}, req, hid,
                AddRow(led, LedgerRow(sku, "INBOUND", "INBOUND", hid, QtyOfSku(req, sku), 0)))

\* the credit of one sku on the stock row, or a new stock row (lines 745-762)
InboundStockRowReplaced(row, qty) == StockRow(qty, 0)

InboundStockRow(row, qty) ==
    IF row.exists THEN [row EXCEPT !.qty_on_hand = @ + qty] ELSE StockRow(qty, 0)

InboundStock(skus, req, stk) ==
    [s \in Skus |-> IF s \in skus THEN InboundStockRow(stk[s], QtyOfSku(req, s)) ELSE stk[s]]

\* lines 706-709: the header's status after a confirm, whatever lines of it
\* the request named
StatusAfterConfirmKept(status) == status

StatusAfterConfirm(status) == "committed"

\* 4) confirm, lines 520-772 (the operator is taken as given and valid)
confirm(header_id, req) ==
    IF header_id <= 0 \/ req = <<>>
    THEN Raise("confirm", INBOUND_VALID_001, 0, "", <<>>, req)
    ELSE IF ~(header_id \in InboundHeaderIds /\ inbound_header[header_id].deleted_at = FALSE)
    THEN Raise("confirm", INBOUND_CONFIRM_001, header_id, "", <<>>, req)
    ELSE IF AlreadyCommitted(inbound_header[header_id].status)
    THEN Raise("confirm", INBOUND_CONFIRM_002, header_id, "", <<>>, req)
    ELSE IF \E k \in 1..Len(req) : req[k].item_id <= 0
    THEN Raise("confirm", INBOUND_VALID_001, header_id, "", <<>>, req)
    ELSE LET item_ids == [k \in 1..Len(req) |-> req[k].item_id]
             db_items == {i \in InboundItemIds :
                             i \in SeqRange(item_ids) /\ inbound_item[i].deleted_at = FALSE}
         IN IF Cardinality(db_items) /= Len(item_ids)
            THEN Raise("confirm", INBOUND_CONFIRM_003, header_id, "", <<>>, req)
            ELSE IF \E i \in db_items : inbound_item[i].header_id /= header_id
            THEN Raise("confirm", INBOUND_CONFIRM_004, header_id, "", <<>>, req)
            ELSE IF FirstBadRow(req, 1).index /= 0
            THEN Raise("confirm", FirstBadRow(req, 1).code, header_id, "", <<>>, req)
            ELSE LET skus == {inbound_item[i].sku : i \in db_items}
                     led == InboundLedger(skus, req, header_id, ledger)
                 IN /\ WithinLedgerBound(led)
                    /\ inbound_header' = SessionEnd(TRUE, inbound_header,
                                            [inbound_header EXCEPT
                                                ![header_id].status = StatusAfterConfirm(@)])
                    /\ inbound_item' = SessionEnd(TRUE, inbound_item, SetLineQty(req, inbound_item))
                    /\ ledger' = SessionEnd(TRUE, ledger, led)
                    /\ stock' = SessionEnd(TRUE, stock, InboundStock(skus, req, stock))
                    /\ result' = Result("confirm", Ok, header_id, "", "", <<>>, req)
                    /\ UNCHANGED <<env, product, header, item>>

(***************************************************************************)
(* The tables at the start: products A and B and the bundle P of A; one    *)
(* draft shipment with a line of A and a line of P (which may be           *)
(* soft-deleted), and a soft-deleted shipment; a draft inbound slip with   *)
(* two lines of A and one of P; a slip of 2 B that was committed earlier,  *)
(* with its ledger row and stock row (1 B is waiting to go out).           *)
(***************************************************************************)
ProductRow(sku, barcode, is_bundle, base_sku, pack_qty) ==
    [sku |-> sku, barcode |-> barcode, is_bundle |-> is_bundle, base_sku |-> base_sku,
     pack_qty |-> pack_qty, is_active |-> TRUE, deleted_at |-> FALSE, exists |-> TRUE]

\* registration creates a header with outbound_date = the day of registration,
\* status draft and no weight
HeaderRow(order_number, tracking_number, deleted_at) ==
    [order_number |-> order_number, tracking_number |-> tracking_number,
     status |-> "draft", deleted_at |-> deleted_at,
     outbound_date |-> RegisteredOn, weight_g |-> None]

ItemRow(header_id, sku, qty, deleted_at) ==
    [header_id |-> header_id, sku |-> sku, qty |-> qty, scanned_qty |-> 0,
     deleted_at |-> deleted_at]

InboundItemRow(header_id, sku, qty) ==
    [header_id |-> header_id, sku |-> sku, qty |-> qty, deleted_at |-> FALSE]

Init ==
    /\ \E k \in {1, MaxPack} :
         product = [s \in Skus |->
                      CASE s = "A" -> ProductRow("A", "bA", FALSE, "A", 1)
                        [] s = "B" -> ProductRow("B", "bB", FALSE, "B", 1)
                        [] s = "P" -> ProductRow("P", "bP", TRUE, "A", k)
                        [] s = "N" -> ProductRow("N", "bN", FALSE, "N", 1)]
    /\ header = [h \in HeaderIds |->
                   CASE h = 1 -> HeaderRow("ORD-1", "TRK-1", FALSE)
                     [] h = 2 -> HeaderRow("ORD-2", "TRK-2", TRUE)]
    /\ \E q1 \in {1, MaxQty}, d2 \in BOOLEAN :
         item = [i \in ItemIds |->
                   CASE i = 1 -> ItemRow(1, "A", q1, FALSE)
                     [] i = 2 -> ItemRow(1, "P", 1, d2)
                     [] i = 3 -> ItemRow(2, "A", 1, FALSE)]
    /\ stock = [s \in Skus |-> IF s = "B" THEN StockRow(2, 1) ELSE NoStockRow]
    /\ ledger = SetToBag({LedgerRow("B", "INBOUND", "INBOUND", 2, 2, 0)})
    /\ inbound_header = [h \in InboundHeaderIds |->
                           [status |-> IF h = 2 THEN "committed" ELSE "draft",
                            deleted_at |-> FALSE]]
    /\ inbound_item = [i \in InboundItemIds |->
                         CASE i = 1 -> InboundItemRow(1, "A", 1)
                           [] i = 2 -> InboundItemRow(1, "A", 1)
                           [] i = 3 -> InboundItemRow(2, "B", 2)
                           [] i = 4 -> InboundItemRow(1, "P", 1)]
    /\ result = Result("none", Ok, 0, "", "", <<>>, "")
    /\ today = RegisteredOn
    /\ txn = [t \in Txns |-> IdleTxn]

Next ==
    \/ \E invoice_no \in InvoiceNos : load_invoice(invoice_no)
    \/ \E call \in ScanCalls : scan_item(call[1], call[2])
    \/ \E invoice_no \in InvoiceNos : confirm_outbound(invoice_no)
    \/ \E ids \in CancelIds : cancel_items(ids)
    \/ \E call \in AdjustCalls : adjust(call[1], call[2])
    \/ \E call \in ConfirmCalls : confirm(call[1], call[2])

Spec == Init /\ [][Next]_vars

(***************************************************************************)
(* Every operation that runs while the ledger exists: the calls above with *)
(* re-issue and product delete.                                            *)
(***************************************************************************)
\* the receipt that brings the stock of A in, and the stock takes of B
ReceiptCalls == {<<1, <<ConfirmRow(1, "", MaxInQty), ConfirmRow(2, "", MaxInQty)>>>>}

StockTakes == {call \in AdjustCalls : call[1] = "B" /\ call[2] >= 1}

NextLedger ==
    \/ \E invoice_no \in InvoiceNos : load_invoice(invoice_no)
    \/ \E call \in ScanCalls : scan_item(call[1], call[2])
    \/ \E invoice_no \in InvoiceNos : confirm_outbound(invoice_no)
    \/ \E ids \in CancelIds : cancel_items(ids)
    \/ \E call \in StockTakes : adjust(call[1], call[2])
    \/ \E call \in ReceiptCalls : confirm(call[1], call[2])
    \/ \E header_ids \in ReissueIds : reissue(header_ids)
    \/ \E skus \in DeleteCalls : delete(skus)

SpecLedger == Init /\ [][NextLedger]_vars

(***************************************************************************)
(* The life of a header over several days: the scan tab with weight        *)
(* capture, cancel, re-issue, the receipt that brings the stock in, and    *)
(* the calendar.                                                           *)
(***************************************************************************)
NextHeader ==
    \/ \E invoice_no \in InvoiceNos : load_invoice(invoice_no)
    \/ \E call \in ScanCalls : scan_item(call[1], call[2])
    \/ \E call \in SetWeightCalls : set_weight(call[1], call[2])
    \/ \E invoice_no \in InvoiceNos : confirm_outbound(invoice_no)
    \/ \E ids \in CancelIds : cancel_items(ids)
    \/ \E header_ids \in ReissueIds : reissue(header_ids)
    \/ \E call \in ReceiptCalls : confirm(call[1], call[2])
    \/ Tick

SpecHeader == Init /\ [][NextHeader]_vars

(***************************************************************************)
(* The registration tab next to the scan tab: a line is edited while its   *)
(* header is picked, confirmed, canceled and re-issued.                    *)
(***************************************************************************)
NextRegister ==
    \/ \E invoice_no \in InvoiceNos : load_invoice(invoice_no)
    \/ \E call \in ScanCalls : scan_item(call[1], call[2])
    \/ \E invoice_no \in InvoiceNos : confirm_outbound(invoice_no)
    \/ \E ids \in CancelIds : cancel_items(ids)
    \/ \E header_ids \in ReissueIds : reissue(header_ids)
    \/ \E call \in UpdateCalls : update_item(call[1], call[2])
    \/ \E call \in ReceiptCalls : confirm(call[1], call[2])

SpecRegister == Init /\ [][NextRegister]_vars


(***************************************************************************)
(* confirm_outbound run by sessions next to each other (PostgreSQL, READ   *)
(* COMMITTED).  A call is three kinds of steps: its begin reads the header *)
(* and the lines and tests status and scan counts; each turn of the loop   *)
(* over the lines SELECTs the stock row, with no FOR UPDATE, tests the     *)
(* quantity and changes the row and adds the ledger row in the session     *)
(* only; commit() flushes the session: an UPDATE that carries the          *)
(* qty_on_hand the session computed, the INSERTs, the UPDATE of the        *)
(* header.                                                                 *)
(***************************************************************************)
ConfirmInvoices == {"ORD-1", "ORD-2", "TRK-9"}

\* the begin of the call, lines 346-385
ConfirmBegin(t, invoice_no) ==
    /\ txn[t].pc = "idle"
    /\ IF ~normalize_invoice_no(invoice_no)
       THEN Raise("confirm_outbound", OUTBOUND_VALID_001, 0, "", <<>>, invoice_no)
       ELSE IF get_header(invoice_no) = {}
       THEN Raise("confirm_outbound", OUTBOUND_NOTFOUND_101, 0, "", <<>>, invoice_no)
       ELSE \E h \in get_header(invoice_no) :
              IF ~ConfirmAllowed(header[h].status)
              THEN Raise("confirm_outbound", OUTBOUND_STATE_451, h, "", <<>>, "")
              ELSE IF HeaderItems(h) = {}
              THEN Raise("confirm_outbound", OUTBOUND_STATE_451, h, "", <<>>, "")
              ELSE \E rows \in RowOrders(HeaderItems(h)) :
                     IF FirstMismatch(rows) /= 0
                     THEN Raise("confirm_outbound", OUTBOUND_STATE_451, h,
                                item[FirstMismatch(rows)].sku, rows, "")
                     ELSE /\ txn' = [txn EXCEPT ![t] =
                                       [IdleTxn EXCEPT !.pc = "lines",
                                                       !.header_id = h,
                                                       !.rows = rows,
                                                       !.outbound_date =
                                                           header[h].outbound_date,
                                                       !.kst_date = today]]
                          /\ UNCHANGED <<db, result, today>>

\* the stock row a session gets from its SELECT: the object already in its
\* identity map keeps the values the session gave it, a row not yet loaded
\* comes with the committed values
Selected(t, sku) == IF sku \in txn[t].loaded THEN txn[t].stock[sku] ELSE stock[sku]

\* one turn of the loop over the lines, lines 400-454
ConfirmLine(t) ==
    /\ txn[t].pc = "lines"
    /\ txn[t].rows /= <<>>
    /\ LET it == item[Head(txn[t].rows)]
           target_sku == DebitTarget(product[it.sku]).sku
           effective_qty == EffectiveQty(it)
           row == Selected(t, target_sku)
       IN IF ~row.exists \/ row.qty_on_hand < effective_qty
          THEN /\ result' = Result("confirm_outbound", DomainError(OUTBOUND_STATE_451),
                                   txn[t].header_id, target_sku, "", <<>>, "")
               /\ txn' = [txn EXCEPT ![t] = IdleTxn]
               /\ UNCHANGED <<db, today>>
          ELSE /\ txn' = [txn EXCEPT
                            ![t].rows = Tail(@),
                            ![t].loaded = @ \cup {target_sku},
                            ![t].stock[target_sku] =
                                [row EXCEPT !.qty_on_hand = AfterDebit(@, effective_qty)],
                            ![t].ledger =
                                AddRow(@, OutboundLedgerRow(target_sku, txn[t].header_id,
                                                            effective_qty))]
               /\ UNCHANGED <<db, result, today>>

\* the qty_on_hand the flush leaves in the table: the UPDATE sets the column
\* to the value of the session's object
FlushedNothing(own, durable) == durable.qty_on_hand

Flushed(own, durable) == own.qty_on_hand

\* the end of the call, lines 456-466: date, status, commit
ConfirmCommit(t) ==
    /\ txn[t].pc = "lines"
    /\ txn[t].rows = <<>>
    /\ LET h == txn[t].header_id
       IN /\ stock' = [s \in Skus |->
                         IF s \in txn[t].loaded
                         THEN [stock[s] EXCEPT !.qty_on_hand = Flushed(txn[t].stock[s], stock[s])]
                         ELSE stock[s]]
          /\ ledger' = ledger (+) txn[t].ledger
          /\ header' = [header EXCEPT
                          ![h].outbound_date =
                              IF txn[t].outbound_date = None THEN txn[t].kst_date ELSE @,
                          ![h].status = "completed"]
          /\ result' = Result("confirm_outbound", Ok, h, "", "", <<>>, "")
          /\ txn' = [txn EXCEPT ![t] = IdleTxn]
          /\ UNCHANGED <<today, product, item, inbound_header, inbound_item>>

\* Two picking headers, fully scanned, that both debit A: header 1 with a
\* line of A, header 2 with a line of A and, unless it is soft-deleted, a
\* line of the bundle P of A.  A came in with one receipt.
Scanned(row) == [row EXCEPT !.scanned_qty = row.qty]

InitConc ==
    /\ \E k \in {1, MaxPack} :
         product = [s \in Skus |->
                      CASE s = "A" -> ProductRow("A", "bA", FALSE, "A", 1)
                        [] s = "B" -> ProductRow("B", "bB", FALSE, "B", 1)
                        [] s = "P" -> ProductRow("P", "bP", TRUE, "A", k)
                        [] s = "N" -> ProductRow("N", "bN", FALSE, "N", 1)]
    /\ header = [h \in HeaderIds |->
                   CASE h = 1 -> [HeaderRow("ORD-1", "TRK-1", FALSE) EXCEPT !.status = "picking"]
                     [] h = 2 -> [HeaderRow("ORD-2", "TRK-2", FALSE) EXCEPT !.status = "picking"]]
    /\ \E q1 \in 1..MaxQty, d2 \in BOOLEAN :
         item = [i \in ItemIds |->
                   CASE i = 1 -> Scanned(ItemRow(1, "A", q1, FALSE))
                     [] i = 2 -> Scanned(ItemRow(2, "P", 1, d2))
                     [] i = 3 -> Scanned(ItemRow(2, "A", 1, FALSE))]
    /\ \E n \in 1..MaxInQty :
         /\ stock = [s \in Skus |->
                       CASE s = "A" -> StockRow(n, 0)
                         [] s = "B" -> StockRow(2, 1)
                         [] OTHER -> NoStockRow]
         /\ ledger = SetToBag({LedgerRow("B", "INBOUND", "INBOUND", 2, 2, 0),
                               LedgerRow("A", "INBOUND", "INBOUND", 1, n, 0)})
    /\ inbound_header = [h \in InboundHeaderIds |->
                           [status |-> "committed", deleted_at |-> FALSE]]
    /\ inbound_item = [i \in InboundItemIds |->
                         CASE i = 1 -> InboundItemRow(1, "A", 1)
                           [] i = 2 -> InboundItemRow(1, "A", 1)
                           [] i = 3 -> InboundItemRow(2, "B", 2)
                           [] i = 4 -> InboundItemRow(1, "P", 1)]
    /\ result = Result("none", Ok, 0, "", "", <<>>, "")
    /\ today = RegisteredOn
    /\ txn = [t \in Txns |-> IdleTxn]

NextConc ==
    \/ \E t \in Txns, invoice_no \in ConfirmInvoices : ConfirmBegin(t, invoice_no)
    \/ \E t \in Txns : ConfirmLine(t)
    \/ \E t \in Txns : ConfirmCommit(t)

SpecConc == InitConc /\ [][NextConc]_vars

(***************************************************************************)
(* One confirm_outbound session next to the calls that credit or count the *)
(* same sku: an inbound confirm and a stock take of A run and commit while *)
(* the session is between its SELECT of the stock row and its commit.      *)
(* Neither blocks the other: the session holds no lock before its flush,   *)
(* and the FOR UPDATE of adjust is released by adjust's own commit.  A     *)
(* came in with an earlier slip (9) that is not among the listed ones.     *)
(***************************************************************************)
MixedStockTakes == {"A"} \X (0 .. MaxFinalQty)

InitMixed ==
    /\ \E k \in {1, MaxPack} :
         product = [s \in Skus |->
                      CASE s = "A" -> ProductRow("A", "bA", FALSE, "A", 1)
                        [] s = "B" -> ProductRow("B", "bB", FALSE, "B", 1)
                        [] s = "P" -> ProductRow("P", "bP", TRUE, "A", k)
                        [] s = "N" -> ProductRow("N", "bN", FALSE, "N", 1)]
    /\ header = [h \in HeaderIds |->
                   CASE h = 1 -> [HeaderRow("ORD-1", "TRK-1", FALSE) EXCEPT !.status = "picking"]
                     [] h = 2 -> HeaderRow("ORD-2", "TRK-2", TRUE)]
    /\ \E q1 \in 1..MaxQty, d2 \in BOOLEAN :
         item = [i \in ItemIds |->
                   CASE i = 1 -> Scanned(ItemRow(1, "A", q1, FALSE))
                     [] i = 2 -> Scanned(ItemRow(1, "P", 1, d2))
                     [] i = 3 -> ItemRow(2, "A", 1, FALSE)]
    /\ \E n \in 1..MaxInQty :
         /\ stock = [s \in Skus |->
                       CASE s = "A" -> StockRow(n, 0)
                         [] s = "B" -> StockRow(2, 1)
                         [] OTHER -> NoStockRow]
         /\ ledger = SetToBag({LedgerRow("B", "INBOUND", "INBOUND", 2, 2, 0),
                               LedgerRow("A", "INBOUND", "INBOUND", 9, n, 0)})
    /\ inbound_header = [h \in InboundHeaderIds |->
                           [status |-> IF h = 2 THEN "committed" ELSE "draft",
                            deleted_at |-> FALSE]]
    /\ inbound_item = [i \in InboundItemIds |->
                         CASE i = 1 -> InboundItemRow(1, "A", 1)
                           [] i = 2 -> InboundItemRow(1, "A", 1)
                           [] i = 3 -> InboundItemRow(2, "B", 2)
                           [] i = 4 -> InboundItemRow(1, "P", 1)]
    /\ result = Result("none", Ok, 0, "", "", <<>>, "")
    /\ today = RegisteredOn
    /\ txn = [t \in Txns |-> IdleTxn]

NextMixed ==
    \/ \E invoice_no \in ConfirmInvoices : ConfirmBegin(1, invoice_no)
    \/ ConfirmLine(1)
    \/ ConfirmCommit(1)
    \/ \E call \in ReceiptCalls : confirm(call[1], call[2])
    \/ \E call \in MixedStockTakes : adjust(call[1], call[2])

SpecMixed == InitMixed /\ [][NextMixed]_vars

(***************************************************************************)
(* Vocabulary of the properties.                                           *)
(***************************************************************************)
\* the lines of header h that are not soft-deleted
Lines(h) == {i \in ItemIds : item[i].header_id = h /\ ~item[i].deleted_at}

AllScanned(h) == \A i \in Lines(h) : item[i].scanned_qty = item[i].qty

RECURSIVE SumOver(_, _)
SumOver(S, f) ==
    IF S = {} THEN 0
    ELSE LET x == CHOOSE y \in S : TRUE IN f[x] + SumOver(S \ {x}, f)

\* what line i takes from sku s when bundles of two or more are resolved
\* to their base sku and every other product is debited itself
ResolvedDebit(i, s) ==
    LET p == product[item[i].sku]
    IN IF p.is_bundle /\ p.pack_qty >= 2
       THEN IF s = p.base_sku THEN p.pack_qty * item[i].qty ELSE 0
       ELSE IF s = item[i].sku THEN item[i].qty ELSE 0

\* what the lines of header h take from sku s altogether
SummedDebit(h, s) == SumOver(Lines(h), [i \in Lines(h) |-> ResolvedDebit(i, s)])

\* some sku the header debits has no stock row or too little on hand
StockLacking(h) ==
    \E s \in Skus : /\ SummedDebit(h, s) > 0
                    /\ ~stock[s].exists \/ stock[s].qty_on_hand < SummedDebit(h, s)

\* the ledger rows written for header h with the given event type
RowsOf(led, h, event_type) ==
    {r \in BagToSet(led) : r.ref_type = "OUTBOUND" /\ r.ref_id = h /\ r.event_type = event_type}

\* the step is a call of the operation that resolved header h
StepOn(op, h) == result'.op = op /\ result'.header_id = h

Failed(r, type) == ErrType(r.code) = type

(***************************************************************************)
(* C1  Ledger/snapshot consistency: in every state reached by inbound     *)
(* confirm, confirm_outbound, adjust and cancel_items calls, successful or *)
(* failed, the qty_on_hand of every stock row equals the sum of            *)
(* qty_in - qty_out over the ledger rows of its sku, and a sku without a   *)
(* stock row has a ledger sum of zero.                                     *)
(***************************************************************************)
C1_LedgerSnapshotConsistent ==
    \A s \in Skus :
        IF stock[s].exists
        THEN stock[s].qty_on_hand = LedgerNet(ledger, s)
        ELSE LedgerNet(ledger, s) = 0

\* all four kinds of event have been booked on top of the opening row
C1_Witness ==
    /\ \A e \in {"INBOUND", "OUTBOUND", "ADJUST", "OUTBOUND_CANCEL"} :
          \E r \in BagToSet(ledger) : r.event_type = e /\ r.ref_id /= 2
    /\ stock["A"].exists
    /\ stock["A"].qty_on_hand > 0

(***************************************************************************)
(* C2  A completed header is not confirmed again: a confirm_outbound call  *)
(* that resolves a header whose status is completed fails with a STATE     *)
(* error, inserts no ledger row and changes no stock row.                  *)
(***************************************************************************)
C2_NoSecondConfirm ==
    [][\A h \in HeaderIds :
          (header[h].status = "completed" /\ StepOn("confirm_outbound", h))
          => /\ Failed(result', "STATE")
             /\ ledger' = ledger
             /\ stock' = stock
             /\ header' = header]_vars

\* a confirm was turned down on a header that is completed
C2_Witness ==
    /\ result.op = "confirm_outbound"
    /\ result.header_id \in HeaderIds
    /\ header[result.header_id].status = "completed"
    /\ Failed(result, "STATE")
    /\ RowsOf(ledger, result.header_id, "OUTBOUND") /= {}

(***************************************************************************)
(* C3  A confirm_outbound of a fully scanned picking header for which some *)
(* debited sku has no stock row or too little on hand fails with a STATE   *)
(* error and changes nothing: the header stays picking, no qty_on_hand is  *)
(* decremented (also not for lines handled before the failing one) and no  *)
(* ledger row is inserted.                                                 *)
(***************************************************************************)
C3_InsufficientStockAtomic ==
    [][\A h \in HeaderIds :
          (/\ header[h].status = "picking"
           /\ Lines(h) /= {}
           /\ AllScanned(h)
           /\ StockLacking(h)
           /\ StepOn("confirm_outbound", h))
          => /\ Failed(result', "STATE")
             /\ header' = header
             /\ stock' = stock
             /\ ledger' = ledger
             /\ item' = item]_vars

\* the confirm failed on its second line, after a first line of another
\* sku with enough stock had been handled
C3_Witness ==
    /\ result.op = "confirm_outbound"
    /\ Failed(result, "STATE")
    /\ result.header_id \in HeaderIds
    /\ header[result.header_id].status = "picking"
    /\ AllScanned(result.header_id)
    /\ Len(result.rows) = 2
    /\ LET first == result.rows[1]
       IN \E s \in Skus : /\ s /= result.sku
                          /\ ResolvedDebit(first, s) > 0
                          /\ stock[s].exists
                          /\ stock[s].qty_on_hand >= ResolvedDebit(first, s)

(***************************************************************************)
(* C4  Scan cap: a scan_item that finds its line on a picking header adds  *)
(* exactly 1 to the scanned_qty of that line and to nothing else while     *)
(* scanned_qty < qty; at scanned_qty >= qty it returns the over-scan       *)
(* marker and leaves every scanned_qty as it was, so that scanned_qty      *)
(* never passes qty.                                                       *)
(***************************************************************************)
C4_ScanCap ==
    [][(result'.op = "scan_item" /\ result'.code = Ok)
       => LET i == result'.rows[1]
          IN /\ i \in Lines(result'.header_id)
             /\ IF item[i].scanned_qty < item[i].qty
                THEN /\ item' = [item EXCEPT ![i].scanned_qty = item[i].scanned_qty + 1]
                     /\ result'.message = ""
                ELSE /\ item' = item
                     /\ result'.message = "over_scan"
             /\ item'[i].scanned_qty <= item'[i].qty]_vars

\* a scan was turned away at the cap
C4_Witness ==
    /\ result.op = "scan_item"
    /\ result.message = "over_scan"
    /\ item[result.rows[1]].scanned_qty = item[result.rows[1]].qty
    /\ item[result.rows[1]].qty >= 2


(***************************************************************************)
(* C5  Bundle resolution, as the code does it: a successful                *)
(* confirm_outbound takes from every sku the summed debit of the header,   *)
(* where a line whose product is a bundle with base_sku X and pack_qty     *)
(* k >= 2 debits X by k * qty and any other line (also a bundle with       *)
(* pack_qty 1) debits its own sku by qty; the ledger moves by the same     *)
(* amounts, every new row is an OUTBOUND row of the header against a       *)
(* resolved sku, and no stock row appears or disappears.                   *)
(***************************************************************************)
C5_BundleResolution ==
    [][\A h \in HeaderIds :
          (StepOn("confirm_outbound", h) /\ result'.code = Ok)
          => /\ \A s \in Skus :
                  /\ stock'[s].exists = stock[s].exists
                  /\ stock'[s].qty_on_hand = stock[s].qty_on_hand - SummedDebit(h, s)
                  /\ LedgerNet(ledger', s) = LedgerNet(ledger, s) - SummedDebit(h, s)
             /\ \A r \in BagToSet(ledger' (-) ledger) :
                  /\ r.event_type = "OUTBOUND" /\ r.ref_id = h /\ r.qty_in = 0
                  /\ \E i \in Lines(h) : ResolvedDebit(i, r.sku) = r.qty_out]_vars

\* a bundle line of pack_qty >= 2 was confirmed against its base sku while
\* the bundle sku itself has no stock row
C5_Witness ==
    /\ result.op = "confirm_outbound"
    /\ result.code = Ok
    /\ 2 \in Lines(result.header_id)
    /\ product["P"].pack_qty >= 2
    /\ ~stock["P"].exists
    /\ \E r \in RowsOf(ledger, result.header_id, "OUTBOUND") :
          r.sku = "A" /\ r.qty_out = product["P"].pack_qty * item[2].qty

\* what a line is said to debit: a bundle its base sku by pack_qty * qty,
\* whatever the pack_qty, any other product its own sku by qty
ClaimedDebit(i, s) ==
    LET p == product[item[i].sku]
    IN IF p.is_bundle
       THEN IF s = p.base_sku THEN p.pack_qty * item[i].qty ELSE 0
       ELSE IF s = item[i].sku THEN item[i].qty ELSE 0

\* C5 as stated: a successful confirm_outbound debits, for a line of a
\* bundle with base_sku X and pack_qty k (any k >= 1), the stock and the
\* ledger of X by k * qty and leaves the bundle's own stock row alone
C5_AnyPackQty ==
    [][\A h \in HeaderIds :
          (StepOn("confirm_outbound", h) /\ result'.code = Ok)
          => \A s \in Skus :
                /\ stock'[s] = [stock[s] EXCEPT !.qty_on_hand =
                       @ - SumOver(Lines(h), [i \in Lines(h) |-> ClaimedDebit(i, s)])]
                /\ LedgerNet(ledger', s) = LedgerNet(ledger, s)
                       - SumOver(Lines(h), [i \in Lines(h) |-> ClaimedDebit(i, s)])]_vars

(***************************************************************************)
(* C6  No aggregation of rows: a confirm_outbound of a fully scanned       *)
(* picking header succeeds exactly when every resolved sku has a stock row *)
(* with at least the summed debit of the header on hand; it then inserts   *)
(* one OUTBOUND row per line (two rows for two lines that resolve to the   *)
(* same sku), the qty_out of the rows of a sku adding up to its summed     *)
(* debit.                                                                  *)
(***************************************************************************)
QtyOutOf(new, s) ==
    LET rows == {r \in BagToSet(new) : r.sku = s}
    IN SumOver(rows, [r \in rows |-> new[r] * r.qty_out])

C7_EndToEnd ==
    [][\A h \in HeaderIds : \A i \in ItemIds :
          (Lines(h) = {i} /\ ~product[item[i].sku].is_bundle)
          => LET a == item[i].sku
                 n == item[i].qty
             IN /\ (StepOn("load_invoice", h) /\ header[h].status = "draft")
                   => /\ result'.code = Ok
                      /\ header'[h].status = "picking"
                      /\ item' = item /\ stock' = stock /\ ledger' = ledger
                /\ (/\ StepOn("scan_item", h)
                    /\ result'.input = product[a].barcode
                    /\ header[h].status = "picking"
                    /\ item[i].scanned_qty < n)
                   => /\ result'.code = Ok
                      /\ item'[i].scanned_qty = item[i].scanned_qty + 1
                      /\ header' = header /\ stock' = stock /\ ledger' = ledger
                /\ (/\ StepOn("confirm_outbound", h)
                    /\ header[h].status = "picking"
                    /\ item[i].scanned_qty = n
                    /\ stock[a].exists
                    /\ stock[a].qty_on_hand >= n)
                   => /\ result'.code = Ok
                      /\ header'[h].status = "completed"
                      /\ stock' = [stock EXCEPT ![a].qty_on_hand = stock[a].qty_on_hand - n]
                      /\ ledger' = ledger (+) SetToBag({[sku |-> a, event_type |-> "OUTBOUND",
                                                        ref_type |-> "OUTBOUND", ref_id |-> h,
                                                        qty_in |-> 0, qty_out |-> n]})]_vars

\* the one-line header went through load, two scans and confirm: it is
\* completed, its single ledger row takes 2 A, and the stock that the
\* inbound slip brought in is lower by 2
C7_Witness ==
    /\ result.op = "confirm_outbound"
    /\ result.code = Ok
    /\ result.header_id = 1
    /\ Lines(1) = {1}
    /\ header[1].status = "completed"
    /\ item[1].qty = 2
    /\ item[1].scanned_qty = 2
    /\ CountRows(ledger, {r \in BagToSet(ledger) : r.ref_type = "OUTBOUND"}) = 1
    /\ LedgerRow("A", "OUTBOUND", "OUTBOUND", 1, 0, 2) \in BagToSet(ledger)
    /\ \E r \in BagToSet(ledger) :
          /\ r.event_type = "INBOUND" /\ r.sku = "A"
          /\ stock["A"].qty_on_hand = r.qty_in - 2

(***************************************************************************)
(* C8  confirm_outbound succeeds only from picking with every non-deleted  *)
(* line fully scanned; on a picking header with a mismatched line it fails *)
(* with a STATE error that names the sku of the first mismatched line in   *)
(* the order the lines were read, and header, stock and ledger stay as     *)
(* they were.                                                              *)
(***************************************************************************)
Mismatched(i) == item[i].scanned_qty /= item[i].qty

FirstMismatchedSku(rows) ==
    LET k == CHOOSE k \in 1..Len(rows) :
                 /\ Mismatched(rows[k])
                 /\ \A j \in 1..(k - 1) : ~Mismatched(rows[j])
    IN item[rows[k]].sku

C8_ConfirmNeedsFullScan ==
    [][\A h \in HeaderIds :
          StepOn("confirm_outbound", h)
          => /\ result'.code = Ok
                => /\ header[h].status = "picking"
                   /\ Lines(h) /= {}
                   /\ AllScanned(h)
             /\ (header[h].status = "picking" /\ ~AllScanned(h))
                => /\ Failed(result', "STATE")
                   /\ Len(result'.rows) = Cardinality(Lines(h))
                   /\ {result'.rows[k] : k \in 1..Len(result'.rows)} = Lines(h)
                   /\ result'.sku = FirstMismatchedSku(result'.rows)
                   /\ header' = header /\ item' = item
                   /\ stock' = stock /\ ledger' = ledger]_vars

\* a confirm of a picking header was refused for its second line, the
\* first one being fully scanned
C8_Witness ==
    /\ result.op = "confirm_outbound"
    /\ Failed(result, "STATE")
    /\ header[result.header_id].status = "picking"
    /\ Len(result.rows) = 2
    /\ ~Mismatched(result.rows[1])
    /\ Mismatched(result.rows[2])
    /\ result.sku = item[result.rows[2]].sku

(***************************************************************************)
(* C9  load_invoice never changes a line, the stock or the ledger.  With   *)
(* no non-deleted header of that order or tracking number it fails with    *)
(* NOTFOUND and changes nothing; otherwise it succeeds on such a header     *)
(* and sets its status to picking when the status was draft or canceled,   *)
(* leaving a picking or completed status, and every other header, as they  *)
(* were.                                                                   *)
(***************************************************************************)
Matching(invoice_no) ==
    {h \in HeaderIds : /\ ~header[h].deleted_at
                       /\ \/ header[h].order_number = invoice_no
                          \/ header[h].tracking_number = invoice_no}

C9_LoadInvoice ==
    [][result'.op = "load_invoice"
       => /\ item' = item /\ stock' = stock /\ ledger' = ledger
          /\ product' = product
          /\ inbound_header' = inbound_header /\ inbound_item' = inbound_item
          /\ result'.input /= ""
             => IF Matching(result'.input) = {}
                THEN Failed(result', "NOTFOUND") /\ header' = header
                ELSE /\ result'.code = Ok
                     /\ result'.header_id \in Matching(result'.input)
                     /\ header' = [header EXCEPT ![result'.header_id].status =
                                      IF @ \in {"draft", "canceled"} THEN "picking" ELSE @]]_vars

\* a header that was completed and canceled has been loaded again and is
\* picking, its lines still fully scanned
C9_Witness ==
    /\ result.op = "load_invoice"
    /\ result.code = Ok
    /\ header[result.header_id].status = "picking"
    /\ RowsOf(ledger, result.header_id, "OUTBOUND_CANCEL") /= {}
    /\ CountRows(ledger, RowsOf(ledger, result.header_id, "OUTBOUND"))
         = CountRows(ledger, RowsOf(ledger, result.header_id, "OUTBOUND_CANCEL"))
    /\ AllScanned(result.header_id)

(***************************************************************************)
(* C10  A scan_item call that finds its header (its invoice number and    *)
(* barcode are not blank) fails with a STATE error and changes nothing     *)
(* when the header is not picking; on a picking header, a barcode of no    *)
(* product, or of products none of which has a non-deleted line in the     *)
(* header, fails with NOTFOUND and changes nothing.                        *)
(***************************************************************************)
ScannedProducts(barcode) == {s \in Skus : product[s].barcode = barcode}

C10_ScanRejected ==
    [][\A h \in HeaderIds :
          StepOn("scan_item", h)
          => /\ header[h].status /= "picking"
                => Failed(result', "STATE") /\ UNCHANGED db
             /\ (/\ header[h].status = "picking"
                 /\ result'.input /= ""
                 /\ \A s \in ScannedProducts(result'.input) :
                       \A i \in Lines(h) : item[i].sku /= s)
                => Failed(result', "NOTFOUND") /\ UNCHANGED db]_vars

\* a scan against a completed header was refused, the scanned barcode being
\* that of one of its fully scanned lines
C10_Witness ==
    /\ result.op = "scan_item"
    /\ Failed(result, "STATE")
    /\ header[result.header_id].status = "completed"
    /\ \E i \in Lines(result.header_id) :
          /\ product[item[i].sku].barcode = result.input
          /\ item[i].scanned_qty = item[i].qty

(***************************************************************************)
(* C11  completed is terminal for the scan-tab operations: a load_invoice, *)
(* scan_item or confirm_outbound call leaves a completed header, the       *)
(* scanned_qty of its lines, the stock and the ledger as they were; the    *)
(* only step that takes a header out of completed is a cancel_items, which *)
(* leaves it canceled.                                                     *)
(***************************************************************************)
ScanTabOps == {"load_invoice", "scan_item", "confirm_outbound"}

C11_CompletedTerminal ==
    [][\A h \in HeaderIds :
          header[h].status = "completed"
          => /\ result'.op \in ScanTabOps
                => /\ header'[h] = header[h]
                   /\ \A i \in Lines(h) : item'[i] = item[i]
                   /\ result'.header_id = h => UNCHANGED db
             /\ header'[h].status /= "completed"
                => /\ result'.op = "cancel_items"
                   /\ header'[h].status = "canceled"]_vars

\* a completed header was loaded again, successfully, and is still completed
C11_Witness ==
    /\ result.op = "load_invoice"
    /\ result.code = Ok
    /\ header[result.header_id].status = "completed"
    /\ RowsOf(ledger, result.header_id, "OUTBOUND") /= {}

(***************************************************************************)
(* C12  adjust(sku, final_qty) on a sku with a stock row (or, for an       *)
(* active product without one, the zero row adjust inserts first), with    *)
(* final_qty >= 0 and final_qty >= qty_pending_out, succeeds and sets      *)
(* qty_on_hand to final_qty; with delta = final_qty - qty_on_hand it adds  *)
(* exactly one ADJUST row, {qty_in delta, qty_out 0} when delta > 0 and    *)
(* {qty_in 0, qty_out -delta} when delta < 0.                              *)
(***************************************************************************)
AdjustStep(s) == result'.op = "adjust" /\ result'.sku = s

C12_AdjustToFinal ==
    [][\A s \in Skus :
          LET final_qty == result'.input
              before == IF stock[s].exists THEN stock[s].qty_on_hand ELSE 0
              pending == IF stock[s].exists THEN stock[s].qty_pending_out ELSE 0
              delta == final_qty - before
              row(qty_in, qty_out) ==
                  [sku |-> s, event_type |-> "ADJUST", ref_type |-> "STOCK_ADJUST",
                   ref_id |-> 0, qty_in |-> qty_in, qty_out |-> qty_out]
          IN (/\ AdjustStep(s)
              /\ stock[s].exists \/ (~product[s].deleted_at /\ product[s].is_active)
              /\ final_qty >= 0
              /\ final_qty >= pending)
             => /\ result'.code = Ok
                /\ stock'[s].exists
                /\ stock'[s].qty_on_hand = final_qty
                /\ stock'[s].qty_pending_out = pending
                /\ \A t \in Skus \ {s} : stock'[t] = stock[t]
                /\ delta > 0 => ledger' = ledger (+) SetToBag({row(delta, 0)})
                /\ delta < 0 => ledger' = ledger (+) SetToBag({row(0, -delta)})]_vars

\* B was adjusted from 2 down to 1: one ADJUST row with qty_out 1
C12_Witness ==
    /\ result.op = "adjust"
    /\ result.code = Ok
    /\ result.sku = "B"
    /\ result.input = 1
    /\ stock["B"].qty_on_hand = 1
    /\ ledger = SetToBag({LedgerRow("B", "INBOUND", "INBOUND", 2, 2, 0),
                          LedgerRow("B", "ADJUST", "STOCK_ADJUST", 0, 0, 1)})

(***************************************************************************)
(* C13  adjust(sku, final_qty) with 0 <= final_qty < qty_pending_out of    *)
(* the sku fails with a STATE error, and with final_qty < 0 it fails with  *)
(* a VALID error; in both cases no ledger row is added and every           *)
(* qty_on_hand stays as it was.                                            *)
(***************************************************************************)
C13_AdjustRefused ==
    [][\A s \in Skus :
          AdjustStep(s)
          => /\ result'.input < 0
                => Failed(result', "VALID") /\ UNCHANGED db
             /\ (/\ result'.input >= 0
                 /\ stock[s].exists
                 /\ result'.input < stock[s].qty_pending_out)
                => /\ Failed(result', "STATE")
                   /\ ledger' = ledger
                   /\ stock' = stock]_vars

\* setting B to 0 while 1 B is waiting to go out was refused
C13_Witness ==
    /\ result.op = "adjust"
    /\ Failed(result, "STATE")
    /\ result.sku = "B"
    /\ result.input = 0
    /\ stock["B"].qty_pending_out = 1
    /\ stock["B"].qty_on_hand = 2

(***************************************************************************)
(* C14  A successful inbound confirm of header h leaves h committed and,   *)
(* for every sku among the lines of the request, adds exactly one ledger   *)
(* row {sku, INBOUND, ref_id h, qty_in = the sum of the requested          *)
(* quantities of the lines of that sku, qty_out 0} and raises the          *)
(* qty_on_hand of that very sku by the same amount, creating the stock row *)
(* when there is none; a line of a bundle credits the bundle sku itself.   *)
(* No other row is added and no other stock row changes.                   *)
(***************************************************************************)
RequestedQty(req, s) ==
    SumOver(1..Len(req),
            [k \in 1..Len(req) |->
                IF inbound_item[req[k].item_id].sku = s THEN req[k].qty ELSE 0])

C14_InboundConfirm ==
    [][\A h \in InboundHeaderIds :
          (result'.op = "confirm" /\ result'.code = Ok /\ result'.header_id = h)
          => LET req == result'.input
                 new == ledger' (-) ledger
                 skus == {inbound_item[req[k].item_id].sku : k \in 1..Len(req)}
             IN /\ inbound_header'[h].status = "committed"
                /\ BagCardinality(new) = Cardinality(skus)
                /\ \A s \in Skus :
                      IF s \in skus
                      THEN /\ new[[sku |-> s, event_type |-> "INBOUND", ref_type |-> "INBOUND",
                                   ref_id |-> h, qty_in |-> RequestedQty(req, s),
                                   qty_out |-> 0]] = 1
                           /\ stock'[s].exists
                           /\ stock'[s].qty_on_hand =
                                (IF stock[s].exists THEN stock[s].qty_on_hand ELSE 0)
                                + RequestedQty(req, s)
                      ELSE stock'[s] = stock[s]]_vars

\* two lines of A were confirmed together: one INBOUND row of their sum on a
\* new stock row
C14_Witness ==
    /\ result.op = "confirm"
    /\ result.code = Ok
    /\ Len(result.input) = 2
    /\ inbound_header[1].status = "committed"
    /\ stock["A"] = StockRow(2 * MaxInQty, 0)
    /\ ledger = SetToBag({LedgerRow("B", "INBOUND", "INBOUND", 2, 2, 0),
                          LedgerRow("A", "INBOUND", "INBOUND", 1, 2 * MaxInQty, 0)})

\* the line of the bundle P was confirmed onto an existing stock row of P:
\* P itself holds the quantity, A has none
C14_BundleWitness ==
    /\ result.op = "confirm"
    /\ result.code = Ok
    /\ product["P"].is_bundle /\ product["P"].pack_qty >= 2
    /\ stock["P"] = StockRow(2, 0)
    /\ ~stock["A"].exists

(***************************************************************************)
(* C15  Inbound lines are credited at most once.  A confirm succeeds only  *)
(* on a header that is not committed, with request lines that are distinct *)
(* and all belong to that header, and it leaves the header committed for   *)
(* good; so the ledger never holds more than one INBOUND row per header    *)
(* and sku.  A confirm that names a committed header, or a line of another *)
(* header, is rejected and changes nothing.                                *)
(***************************************************************************)
ConfirmStep(h) == result'.op = "confirm" /\ result'.header_id = h

InboundRowsOf(led, h, s) ==
    CountRows(led, {r \in BagToSet(led) :
                       r.event_type = "INBOUND" /\ r.ref_id = h /\ r.sku = s})

C15_InboundOnce ==
    /\ [](\A h \in InboundHeaderIds : \A s \in Skus : InboundRowsOf(ledger, h, s) <= 1)
    /\ [][\A h \in InboundHeaderIds :
          /\ inbound_header[h].status = "committed"
             => inbound_header'[h].status = "committed"
          /\ ledger' /= ledger
             => \A s \in Skus :
                   /\ InboundRowsOf(ledger', h, s) >= InboundRowsOf(ledger, h, s)
                   /\ InboundRowsOf(ledger', h, s) > InboundRowsOf(ledger, h, s)
                      => (ConfirmStep(h) /\ result'.code = Ok)
          /\ ConfirmStep(h)
             => LET req == result'.input
                    ids == {req[k].item_id : k \in 1..Len(req)}
                IN /\ result'.code = Ok
                      => /\ inbound_header[h].status /= "committed"
                         /\ Cardinality(ids) = Len(req)
                         /\ \A i \in ids : i \in InboundItemIds /\ inbound_item[i].header_id = h
                   /\ (\/ inbound_header[h].status = "committed"
                       \/ \E i \in ids : i \in InboundItemIds /\ inbound_item[i].header_id /= h)
                      => result'.code /= Ok /\ UNCHANGED db]_vars

\* slip 1 is committed, with one INBOUND row of A, and a second confirm of
\* its line 1 was rejected
C15_Witness ==
    /\ result.op = "confirm"
    /\ result.code /= Ok
    /\ result.header_id = 1
    /\ inbound_header[1].status = "committed"
    /\ Len(result.input) >= 1
    /\ result.input[1].item_id = 1
    /\ InboundRowsOf(ledger, 1, "A") = 1

(***************************************************************************)
(* C17 as stated: every ledger row has exactly one of qty_in and qty_out   *)
(* nonzero, also the row of an adjust whose final_qty equals the current   *)
(* qty_on_hand.                                                            *)
(***************************************************************************)
C17_ExactlyOneNonzero ==
    \A r \in BagToSet(ledger) : (r.qty_in = 0) /= (r.qty_out = 0)

\* what the code keeps: quantities are never negative and never both
\* nonzero, and a row with both zero is the row of an adjust
C17_NeverBothNonzero ==
    \A r \in BagToSet(ledger) :
       /\ r.qty_in >= 0 /\ r.qty_out >= 0
       /\ r.qty_in = 0 \/ r.qty_out = 0
       /\ (r.qty_in = 0 /\ r.qty_out = 0) => r.event_type = "ADJUST"

(***************************************************************************)
(* C19  set_weight stores weight_g on the header in every status (draft,   *)
(* picking, completed, canceled) and changes nothing else: the header's    *)
(* other columns, the lines with their scanned_qty, stock and ledger stay  *)
(* as they were.  A weight that is not a positive integer fails with a     *)
(* VALID error and the stored weight is unchanged.                         *)
(***************************************************************************)
\* the step is a call of the operation (and not the calendar moving on)
Called(op) == result'.op = op /\ today' = today

PositiveInteger(weight_g) == weight_g.converts /\ weight_g.value >= 1

C19_SetWeight ==
    [][Called("set_weight") =>
         LET invoice_no == result'.input[1]
             weight_g == result'.input[2]
         IN /\ ~PositiveInteger(weight_g) =>
                 Failed(result', "VALID") /\ UNCHANGED db
            /\ \A h \in HeaderIds :
                 (/\ PositiveInteger(weight_g)
                  /\ ~header[h].deleted_at
                  /\ invoice_no \in {header[h].order_number, header[h].tracking_number}
                  /\ header[h].status \in Statuses)
                 => /\ result'.code = Ok
                    /\ header' = [header EXCEPT ![h].weight_g = weight_g.value]
                    /\ UNCHANGED <<product, item, stock, ledger, inbound_header,
                                   inbound_item>>]_vars

\* a weight was stored on a canceled header whose stock and ledger carry the
\* confirm and its cancel
C19_Witness ==
    /\ result.op = "set_weight" /\ result.code = Ok /\ result.header_id = 1
    /\ header[1].status = "canceled"
    /\ header[1].weight_g = MaxWeight
    /\ RowsOf(ledger, 1, "OUTBOUND_CANCEL") /= {}

\* a weight was stored in each of the other statuses
C19_WitnessDraft ==
    result.op = "set_weight" /\ result.code = Ok /\ header[1].status = "draft"
    /\ header[1].weight_g = 1

C19_WitnessPicking ==
    result.op = "set_weight" /\ result.code = Ok /\ header[1].status = "picking"
    /\ header[1].weight_g = 1

C19_WitnessCompleted ==
    result.op = "set_weight" /\ result.code = Ok /\ header[1].status = "completed"
    /\ header[1].weight_g = 1

\* a refused weight left the stored one in place
C19_WitnessRefused ==
    /\ result.op = "set_weight" /\ Failed(result, "VALID")
    /\ result.input[1] = "ORD-1" /\ ~PositiveInteger(result.input[2])
    /\ header[1].weight_g = MaxWeight

(***************************************************************************)
(* C20  outbound_date of a header is set once, at confirm: it is unset     *)
(* while the header is draft or picking, confirm_outbound sets it to the   *)
(* confirm date when it is unset, and no later operation on a completed    *)
(* header overwrites it.                                                   *)
(***************************************************************************)
Live(h) == ~header[h].deleted_at

\* unset while the header is draft or picking
UnsetBeforeConfirm ==
    \A h \in HeaderIds :
       Live(h) /\ header[h].status \in {"draft", "picking"}
       => header[h].outbound_date = None

\* a confirm that succeeds sets an unset outbound_date to the day of the confirm
ConfirmSetsUnset(h) ==
    (/\ Called("confirm_outbound") /\ result'.code = Ok /\ result'.header_id = h
     /\ header[h].outbound_date = None)
    => header'[h].outbound_date = today

\* a header that is completed and stays completed keeps its outbound_date
CompletedKeepsDate(h) ==
    header[h].status = "completed" /\ header'[h].status = "completed"
    => header'[h].outbound_date = header[h].outbound_date

C20_SetOnceAtConfirm ==
    [][/\ UnsetBeforeConfirm
       /\ \A h \in HeaderIds : ConfirmSetsUnset(h) /\ CompletedKeepsDate(h)]_vars

\* what the code does keep: the confirm fills an unset outbound_date and
\* nothing overwrites the outbound_date of a completed header
C20_ConfirmFillsAndKeeps ==
    [][\A h \in HeaderIds : ConfirmSetsUnset(h) /\ CompletedKeepsDate(h)]_vars

\* every confirm leaves the day of the confirm as the outbound_date: violated
\* by a header registered on one day and confirmed on a later day, which is
\* completed with the day of its registration as outbound_date
C20_ConfirmDateIsOutboundDate ==
    [][\A h \in HeaderIds :
          (Called("confirm_outbound") /\ result'.code = Ok /\ result'.header_id = h)
          => header'[h].outbound_date = today]_vars

\* after a re-issue the confirm does set the outbound_date to its own day
C20_ReissuedWitness ==
    /\ result.op = "confirm_outbound" /\ result.code = Ok /\ result.header_id = 1
    /\ RowsOf(ledger, 1, "OUTBOUND_CANCEL") /= {}
    /\ today = MaxDay /\ header[1].outbound_date = MaxDay

(***************************************************************************)
(* C16  InventoryLedger is append-only: no operation (inbound confirm,     *)
(* confirm_outbound, adjust, cancel_items, reissue, product delete)        *)
(* removes a ledger row or changes the sku, qty_in or qty_out of an        *)
(* existing row; the rows of the ledger only grow.  With the table kept as *)
(* a bag of rows, a removed or rewritten row is a row value with fewer     *)
(* copies after the step than before.                                      *)
(***************************************************************************)
C16_AppendOnly ==
    [][\A r \in BagToSet(ledger) : CopiesIn(r, ledger') >= CopiesIn(r, ledger)]_vars

\* a product was deleted while the ledger held the rows of a receipt, a
\* confirm, its cancel and an adjustment, after the header was re-issued
C16_Witness ==
    /\ result.op = "delete" /\ result.code = Ok
    /\ \E s \in Skus : ~product[s].exists
    /\ header[1].status = "draft"
    /\ RowsOf(ledger, 1, "OUTBOUND") /= {}
    /\ RowsOf(ledger, 1, "OUTBOUND_CANCEL") /= {}
    /\ \E r \in BagToSet(ledger) : r.event_type = "ADJUST"
    /\ \E r \in BagToSet(ledger) : r.event_type = "INBOUND" /\ r.sku = "A"

\* a delete of a sku with ledger rows was refused and the rows are still there
C16_WitnessUsed ==
    /\ result.op = "delete" /\ result.code /= Ok /\ result.sku = "B"
    /\ product["B"].exists
    /\ \E r \in BagToSet(ledger) : r.sku = "B"

(***************************************************************************)
(* C18  Two concurrent confirm_outbound transactions on different headers  *)
(* that debit the same SKU can both pass the sufficient-stock check before *)
(* either one writes its decrement (no row lock is taken on StockCurrent), *)
(* so that the quantity debited in the ledger by the two confirms exceeds  *)
(* the stock that was on hand.  What holds in every run: the check of a    *)
(* line tests the committed quantity the session reads, which no pending   *)
(* debit of another session has reduced, and a session whose checks have   *)
(* passed always commits: its ledger rows are inserted and the qty_on_hand *)
(* it computed from its own read is written, whatever has been committed   *)
(* in between.                                                             *)
(***************************************************************************)
\* session t is through its checks and has not committed
PassedChecks(t) == txn[t].pc = "lines" /\ txn[t].rows = <<>>

\* what the ledger says went out of, and came into, a sku
Debited(led, s) ==
    SumOver({r \in BagToSet(led) : r.sku = s},
            [r \in {x \in BagToSet(led) : x.sku = s} |-> led[r] * r.qty_out])

Credited(led, s) ==
    SumOver({r \in BagToSet(led) : r.sku = s},
            [r \in {x \in BagToSet(led) : x.sku = s} |-> led[r] * r.qty_in])

C18_StaleCheckCommits ==
    [][\A t \in Txns :
          /\ (txn[t].pc = "lines" /\ txn'[t].pc = "lines" /\ txn'[t] /= txn[t])
             => \A s \in txn'[t].loaded \ txn[t].loaded :
                   /\ stock[s].exists
                   /\ txn'[t].stock[s].qty_on_hand >= 0
                   /\ txn'[t].stock[s].qty_on_hand
                        = stock[s].qty_on_hand - Debited(txn'[t].ledger, s)
          /\ (PassedChecks(t) /\ txn'[t].pc = "idle")
             => /\ result'.code = Ok
                /\ result'.header_id = txn[t].header_id
                /\ header'[txn[t].header_id].status = "completed"
                /\ ledger' = ledger (+) txn[t].ledger
                /\ \A s \in Skus :
                      stock'[s].qty_on_hand =
                        IF s \in txn[t].loaded THEN txn[t].stock[s].qty_on_hand
                        ELSE stock[s].qty_on_hand]_vars

\* both sessions are through their checks, on different headers, before
\* either has written, and together they take more A than there is
C18_BothPassed ==
    /\ PassedChecks(1) /\ PassedChecks(2)
    /\ txn[1].header_id /= txn[2].header_id
    /\ Debited(txn[1].ledger, "A") + Debited(txn[2].ledger, "A") > stock["A"].qty_on_hand
    /\ Debited(ledger, "A") = 0

\* both confirms have committed: the ledger has more A going out than ever
\* came in
C18_Witness ==
    /\ header[1].status = "completed" /\ header[2].status = "completed"
    /\ RowsOf(ledger, 1, "OUTBOUND") /= {} /\ RowsOf(ledger, 2, "OUTBOUND") /= {}
    /\ Debited(ledger, "A") > Credited(ledger, "A")
    /\ result.op = "confirm_outbound" /\ result.code = Ok

(***************************************************************************)
(* C21  Every illegal-transition rejection in the core reaches the caller  *)
(* as a DomainError whose normalized code is of type STATE, never as an    *)
(* UNKNOWN code: an outbound scan or confirm in the wrong status, a        *)
(* scan-count mismatch, insufficient stock, an inbound confirm of an       *)
(* already committed header, an adjust below pending-out.                  *)
(***************************************************************************)
\* the rejections of the outbound scan tab and of adjust
OutboundAndStockRejections ==
    /\ \A h \in HeaderIds :
          /\ (StepOn("scan_item", h) /\ header[h].status /= "picking")
             => Failed(result', "STATE")
          /\ (StepOn("confirm_outbound", h) /\ result'.code /= Ok)
             => Failed(result', "STATE")
    /\ \A s \in Skus :
          (/\ AdjustStep(s)
           /\ result'.input >= 0
           /\ stock[s].exists
           /\ result'.input < stock[s].qty_pending_out)
          => Failed(result', "STATE")

\* the rejection of an inbound confirm of a committed header
CommittedRejection ==
    \A h \in InboundHeaderIds :
       (ConfirmStep(h) /\ inbound_header[h].status = "committed")
       => Failed(result', "STATE")

C21_RejectionsAreState ==
    [][OutboundAndStockRejections /\ CommittedRejection]_vars

\* what the code keeps: the rejections of the outbound scan tab and of
\* adjust are STATE errors
C21_OutboundAndStockAreState == [][OutboundAndStockRejections]_vars

\* the confirm of a committed inbound header is rejected with the code that
\* stands for an unknown error
C21_CommittedIsUnknown ==
    [][\A h \in InboundHeaderIds :
          (ConfirmStep(h) /\ inbound_header[h].status = "committed")
          => result'.code = <<"SYSTEM", "UNKNOWN", "999">> /\ UNCHANGED db]_vars

(***************************************************************************)
(* C22  cancel_items is accepted only for a header in status completed.    *)
(* It then sets the status to canceled and, for every non-deleted line,    *)
(* adds the line's qty to the qty_on_hand of the line's own sku and        *)
(* inserts an OUTBOUND_CANCEL ledger row with qty_in = qty and qty_out 0,  *)
(* all in one commit.  For any other status, or when the sku of a line has *)
(* no stock row, it fails with a STATE error and header, lines, stock and  *)
(* ledger are unchanged.                                                   *)
(***************************************************************************)
\* the quantity of the lines of header h whose own sku is s
LineQty(h, s) ==
    SumOver(Lines(h), [i \in Lines(h) |-> IF item[i].sku = s THEN item[i].qty ELSE 0])

\* the lines of header h with the given sku and quantity
LinesLike(h, s, q) == {i \in Lines(h) : item[i].sku = s /\ item[i].qty = q}

Cancelable(h) ==
    header[h].status = "completed" /\ \A i \in Lines(h) : stock[item[i].sku].exists

C22_WitnessNoStockRow ==
    /\ result.op = "cancel_items" /\ Failed(result, "STATE")
    /\ header[result.header_id].status = "completed"
    /\ result.sku = "P" /\ ~stock["P"].exists

\* the cancel of a header that is not completed was refused
C22_WitnessWrongStatus ==
    /\ result.op = "cancel_items" /\ Failed(result, "STATE")
    /\ header[result.header_id].status = "canceled"

(***************************************************************************)
(* C23  reissue is accepted only for a non-deleted header in status        *)
(* canceled with at least one non-deleted line: it sets the status to      *)
(* draft, clears outbound_date and weight_g, resets the scanned_qty of     *)
(* every non-deleted line to 0 and keeps tracking_number; it touches       *)
(* neither stock nor ledger.  For a header in any other status it fails    *)
(* with NOTFOUND and changes nothing.                                      *)
(***************************************************************************)
Reissuable(h) == Live(h) /\ header[h].status = "canceled" /\ Lines(h) /= {}

C23_WitnessCompleted ==
    /\ result.op = "reissue" /\ Failed(result, "NOTFOUND")
    /\ result.input = <<1>>
    /\ header[1].status = "completed"

(***************************************************************************)
(* C24  qty_on_hand is never negative: starting from non-negative stock,   *)
(* after any sequence of inbound confirm, confirm_outbound, adjust and     *)
(* cancel_items calls run one after another, every qty_on_hand is >= 0,    *)
(* also when several lines of one header debit the same sku.               *)
(***************************************************************************)
C24_NonNegativeStock == \A s \in Skus : stock[s].qty_on_hand >= 0

\* two lines of one header, a line of A and a line of the bundle of A, were
\* debited against A and took all of it
C24_Witness ==
    /\ result.op = "confirm_outbound" /\ result.code = Ok
    /\ Cardinality(Lines(result.header_id)) = 2
    /\ CountRows(ledger, {r \in RowsOf(ledger, result.header_id, "OUTBOUND") : r.sku = "A"}) = 2
    /\ stock["A"].exists /\ stock["A"].qty_on_hand = 0

\* a confirm whose second line asks for more than the first one left was
\* refused
C24_WitnessRefused ==
    /\ result.op = "confirm_outbound" /\ Failed(result, "STATE")
    /\ result.sku = "A" /\ Len(result.rows) = 2
    /\ AllScanned(result.header_id)
    /\ stock["A"].exists
    /\ stock["A"].qty_on_hand >= item[result.rows[1]].qty
    /\ stock["A"].qty_on_hand >= 1

(***************************************************************************)
(* C25  Cancel undoes confirm: a confirm_outbound of a header followed by  *)
(* cancel_items of the same header, with no other operation in between,    *)
(* restores the qty_on_hand of every sku to its value before the confirm,  *)
(* and the OUTBOUND and OUTBOUND_CANCEL rows of that header net to zero    *)
(* per sku, also when lines are bundle skus that were debited against      *)
(* their base sku.                                                         *)
(***************************************************************************)
\* qty_in - qty_out summed over the rows of sku s written for header h
HeaderNet(led, h, s) ==
    SumNet(led, {r \in RowsOf(led, h, "OUTBOUND") \cup RowsOf(led, h, "OUTBOUND_CANCEL") :
                    r.sku = s})

\* the last call confirmed header h and this step cancels it
CancelRightAfterConfirm(h) ==
    /\ result.op = "confirm_outbound" /\ result.code = Ok /\ result.header_id = h
    /\ StepOn("cancel_items", h) /\ result'.code = Ok

\* the cancel gives every sku back what the lines of h took from it
Undone(h) ==
    \A s \in Skus :
       /\ stock'[s].qty_on_hand = stock[s].qty_on_hand + SummedDebit(h, s)
       /\ HeaderNet(ledger', h, s) = 0

\* some line of h is a bundle that confirm_outbound debits against its base sku
HasBundleLine(h) ==
    \E i \in Lines(h) : product[item[i].sku].is_bundle /\ product[item[i].sku].pack_qty >= 2

\* C25 as stated: every accepted cancel right after the confirm undoes it
C25_CancelUndoesConfirm ==
    [][\A h \in HeaderIds : CancelRightAfterConfirm(h) => Undone(h)]_vars

\* what the code does keep: the confirm of a header without such a bundle
\* line is undone by the cancel
C25_UndoneWithoutBundles ==
    [][\A h \in HeaderIds :
          CancelRightAfterConfirm(h) /\ ~HasBundleLine(h) => Undone(h)]_vars

\* and with a bundle line the cancel credits the bundle sku by qty, never
\* the base sku, which stays short of pack_qty * qty
C25_BundleNotUndone ==
    [][\A h \in HeaderIds :
          CancelRightAfterConfirm(h) /\ HasBundleLine(h)
          => \E i \in Lines(h) :
                LET p == product[item[i].sku]
                IN /\ p.is_bundle /\ p.pack_qty >= 2
                   /\ HeaderNet(ledger', h, p.base_sku) < 0
                   /\ HeaderNet(ledger', h, item[i].sku) > 0]_vars

\* a header with a bundle line was confirmed and then canceled
C25_WitnessBundle ==
    /\ result.op = "cancel_items" /\ result.code = Ok
    /\ HasBundleLine(result.header_id)
    /\ HeaderNet(ledger, result.header_id, "A") < 0
    /\ HeaderNet(ledger, result.header_id, "P") > 0

(***************************************************************************)
(* C26  For every non-deleted outbound line 0 <= scanned_qty <= qty holds  *)
(* in every reachable state, over registration, load_invoice, scan_item,   *)
(* confirm_outbound, cancel_items, reissue and the registration tab's      *)
(* update_item, which may change a line's qty and sku.                     *)
(***************************************************************************)
ScannedWithinQty ==
    \A i \in ItemIds :
       ~item[i].deleted_at => 0 <= item[i].scanned_qty /\ item[i].scanned_qty <= item[i].qty

\* C26 as stated
C26_ScannedWithinQty == ScannedWithinQty

\* what the code does keep: every operation but update_item preserves the
\* bounds, and so does an update_item that leaves qty at or above scanned_qty
C26_KeptByTheOthers ==
    [][ScannedWithinQty /\ ~ScannedWithinQty'
       => /\ result'.op = "update_item" /\ result'.code = Ok
          /\ LET item_id == result'.input[1]
                 data == result'.input[2]
             IN "qty" \in data.keys /\ data.qty < item[item_id].scanned_qty]_vars

\* update_item accepts the new qty whatever the header's status and the
\* line's scanned_qty, and leaves scanned_qty as it is
C26_UpdateKeepsScans ==
    [][result'.op = "update_item" /\ result'.code = Ok
       => LET item_id == result'.input[1]
              data == result'.input[2]
          IN /\ item'[item_id].scanned_qty = item[item_id].scanned_qty
             /\ "qty" \in data.keys => item'[item_id].qty = data.qty
             /\ "sku" \in data.keys => item'[item_id].sku = data.sku
             /\ \A i \in ItemIds \ {item_id} : item'[i] = item[i]
             /\ UNCHANGED <<header, stock, ledger>>]_vars

\* a line scanned in full was edited down below its scan count
C26_WitnessOverScanned ==
    /\ result.op = "update_item" /\ result.code = Ok
    /\ \E i \in Lines(1) : item[i].scanned_qty > item[i].qty

(***************************************************************************)
(* C27  A canceled header that load_invoice puts back to picking, without  *)
(* a reissue, keeps the scanned_qty of its lines, so confirm_outbound can  *)
(* succeed again without any scan_item and debits the stock a second       *)
(* time; only reissue resets scanned_qty.                                  *)
(***************************************************************************)
\* header h was completed and canceled before, and the last call loaded it
LoadedAfterCancel(h) ==
    /\ result.op = "load_invoice" /\ result.header_id = h
    /\ header[h].status = "picking"
    /\ RowsOf(ledger, h, "OUTBOUND_CANCEL") /= {}

C27_ReconfirmWithoutScan ==
    [][\A h \in HeaderIds :
          /\ Called("load_invoice") /\ result'.header_id = h /\ header[h].status = "canceled"
             => header'[h].status = "picking" /\ item' = item
          /\ Called("cancel_items") /\ result'.header_id = h => item' = item
          /\ (\E i \in ItemIds : item[i].header_id = h
                                 /\ item'[i].scanned_qty < item[i].scanned_qty)
             => Called("reissue") /\ result'.code = Ok /\ result'.header_id = h
          /\ LoadedAfterCancel(h) /\ StepOn("confirm_outbound", h)
             /\ AllScanned(h) /\ ~StockLacking(h)
             => /\ result'.code = Ok
                /\ header'[h].status = "completed"
                /\ \A s \in Skus :
                      stock'[s].qty_on_hand = stock[s].qty_on_hand - SummedDebit(h, s)]_vars

\* a header was confirmed, canceled, loaded and confirmed again: it has
\* been debited twice and credited once
C27_Witness ==
    /\ result.op = "confirm_outbound" /\ result.code = Ok
    /\ header[result.header_id].status = "completed"
    /\ LET h == result.header_id
       IN /\ AllScanned(h)
          /\ CountRows(ledger, RowsOf(ledger, h, "OUTBOUND_CANCEL")) = Cardinality(Lines(h))
          /\ CountRows(ledger, RowsOf(ledger, h, "OUTBOUND")) = 2 * Cardinality(Lines(h))

\* the state the second confirm starts from: loaded after the cancel, every
\* line still scanned in full
C27_WitnessLoaded ==
    \E h \in HeaderIds : LoadedAfterCancel(h) /\ AllScanned(h) /\ ~StockLacking(h)

(***************************************************************************)
(* C28  Two concurrent confirm_outbound calls for the same picking header  *)
(* debit the stock at most once: in every interleaving at most one of them *)
(* inserts the OUTBOUND rows and decrements qty_on_hand, and the other     *)
(* fails with a STATE error.                                               *)
(***************************************************************************)
\* the OUTBOUND rows written for header h so far
OutboundRowCount(h) == CountRows(ledger, RowsOf(ledger, h, "OUTBOUND"))

\* C28 as stated: a header never has more OUTBOUND rows than lines, and a
\* session never commits the confirm of a header that is no longer picking
C28_DebitedAtMostOnce ==
    /\ [](\A h \in HeaderIds : OutboundRowCount(h) <= Cardinality(Lines(h)))
    /\ [][\A t \in Txns :
             PassedChecks(t) /\ txn'[t].pc = "idle"
             => header[txn[t].header_id].status = "picking"]_vars

\* what the code does keep: a call that begins after the other has
\* committed is refused with a STATE error
C28_LateBeginRefused ==
    [][\A h \in HeaderIds :
          /\ header[h].status = "completed"
          /\ result' /= result /\ txn' = txn
          /\ result'.op = "confirm_outbound" /\ result'.header_id = h
          => Failed(result', "STATE") /\ UNCHANGED db]_vars

\* and a call that began while the header was picking commits whatever the
\* header's status has become: the rows are inserted again and the status
\* is set to completed again
C28_EarlyBeginCommits ==
    [][\A t \in Txns :
          PassedChecks(t) /\ txn'[t].pc = "idle" /\ header[txn[t].header_id].status = "completed"
          => /\ result'.code = Ok
             /\ ledger' = ledger (+) txn[t].ledger
             /\ LET h == txn[t].header_id
                IN CountRows(ledger', RowsOf(ledger', h, "OUTBOUND"))
                     = 2 * Cardinality(Lines(h))]_vars

\* both sessions hold the same header, through their checks, nothing written
C28_BothHoldOne ==
    /\ PassedChecks(1) /\ PassedChecks(2)
    /\ txn[1].header_id = txn[2].header_id
    /\ header[txn[1].header_id].status = "picking"

\* both have committed: header 1 has its OUTBOUND rows twice
C28_WitnessTwice ==
    /\ result.op = "confirm_outbound" /\ result.code = Ok /\ result.header_id = 1
    /\ OutboundRowCount(1) = 2 * Cardinality(Lines(1))
    /\ txn[1].pc = "idle" /\ txn[2].pc = "idle"

(***************************************************************************)
(* C29  Ledger/snapshot consistency survives the interleaving of a         *)
(* confirm_outbound transaction with an inbound confirm or an adjust on    *)
(* the same sku, each reading qty_on_hand and later writing in its own     *)
(* transaction: after both have committed, qty_on_hand equals the ledger   *)
(* net of the sku.                                                         *)
(***************************************************************************)
SnapshotIsLedgerNet(s) ==
    IF stock[s].exists THEN stock[s].qty_on_hand = LedgerNet(ledger, s)
    ELSE LedgerNet(ledger, s) = 0

\* C29 as stated: with no call under way every sku is consistent
C29_ConsistentAfterBoth ==
    (\A t \in Txns : txn[t].pc = "idle") => \A s \in Skus : SnapshotIsLedgerNet(s)

\* what the code does keep: the inbound confirm and the adjust, which read
\* and write in one step here, leave every sku as consistent as it was, and
\* so does a confirm_outbound whose stock rows nobody wrote since it read them
C29_KeptWithoutOverlap ==
    [][/\ (result'.op \in {"confirm", "adjust"} /\ result' /= result)
          => \A s \in Skus : SnapshotIsLedgerNet(s) => SnapshotIsLedgerNet(s)'
       /\ \A t \in Txns :
             /\ PassedChecks(t) /\ txn'[t].pc = "idle"
             /\ \A s \in txn[t].loaded :
                   stock[s].qty_on_hand
                     = txn[t].stock[s].qty_on_hand + Debited(txn[t].ledger, s)
             => \A s \in Skus : SnapshotIsLedgerNet(s) => SnapshotIsLedgerNet(s)']_vars

\* the commit of confirm_outbound writes what the session computed from the
\* value it read, whatever has been committed to the row since
C29_CommitOverwrites ==
    [][\A t \in Txns :
          PassedChecks(t) /\ txn'[t].pc = "idle"
          => /\ ledger' = ledger (+) txn[t].ledger
             /\ \A s \in txn[t].loaded :
                   stock'[s].qty_on_hand = txn[t].stock[s].qty_on_hand]_vars

\* an inbound confirm committed between the session's read and its commit:
\* the credit is in the ledger and not on the stock row
C29_WitnessInbound ==
    /\ txn[1].pc = "idle"
    /\ result.op = "confirm_outbound" /\ result.code = Ok
    /\ inbound_header[1].status = "committed"
    /\ AdjustRows(ledger) = 0
    /\ stock["A"].qty_on_hand < LedgerNet(ledger, "A")

\* an adjust committed between the session's read and its commit
C29_WitnessAdjust ==
    /\ txn[1].pc = "idle"
    /\ result.op = "confirm_outbound" /\ result.code = Ok
    /\ inbound_header[1].status = "draft"
    /\ AdjustRows(ledger) = 1
    /\ stock["A"].qty_on_hand /= LedgerNet(ledger, "A")

(***************************************************************************)
(* C30  An inbound confirm that names only a strict subset of a draft      *)
(* header's lines still sets the header to committed; every later confirm  *)
(* for the remaining lines is rejected as already committed, so those      *)
(* lines are never credited to stock.                                      *)
(***************************************************************************)
\* the lines of inbound header h that are not soft-deleted
InboundLines(h) ==
    {i \in InboundItemIds : inbound_item[i].header_id = h /\ ~inbound_item[i].deleted_at}

\* the lines a request names
Named(req) == {req[k].item_id : k \in 1..Len(req)}

\* the skus of the lines of h that the request leaves out and names no
\* other line of
LeftOut(h, req) ==
    {inbound_item[i].sku : i \in InboundLines(h) \ Named(req)}
    \ {inbound_item[i].sku : i \in InboundLines(h) \cap Named(req)}

C30_PartialConfirmCommits ==
    [][\A h \in InboundHeaderIds :
          /\ ConfirmStep(h) /\ result'.code = Ok
             /\ Named(result'.input) /= InboundLines(h)
             => /\ Named(result'.input) \subseteq InboundLines(h)
                /\ inbound_header'[h].status = "committed"
                /\ \A s \in LeftOut(h, result'.input) :
                      stock'[s] = stock[s] /\ InboundRowsOf(ledger', h, s) = 0
          /\ ConfirmStep(h) /\ inbound_header[h].status = "committed"
             /\ result'.input /= <<>>
             => result'.code = DomainError(INBOUND_CONFIRM_002) /\ UNCHANGED db
          /\ inbound_header[h].status = "committed"
             => /\ inbound_header'[h].status = "committed"
                /\ ledger' /= ledger
                   => \A s \in Skus :
                         InboundRowsOf(ledger', h, s) = InboundRowsOf(ledger, h, s)]_vars

\* slip 1 was committed by a confirm of its A lines only; the confirm of
\* its remaining line, the bundle P, has just been rejected and P has no
\* INBOUND row of the slip
C30_Witness ==
    /\ result.op = "confirm" /\ result.header_id = 1
    /\ result.code = DomainError(INBOUND_CONFIRM_002)
    /\ Named(result.input) = {4}
    /\ 4 \in InboundLines(1)
    /\ inbound_header[1].status = "committed"
    /\ InboundRowsOf(ledger, 1, "A") = 1
    /\ InboundRowsOf(ledger, 1, "P") = 0

====
